---- MODULE Spec2Model ----
(***************************************************************************)
(* A model of moleculer-db-typeorm.                                        *)
(*                                                                         *)
(* SpecReg  : the named-connection registry (ConnectionManager) and the    *)
(*            TypeORM adapter's connect / disconnect, with every await of  *)
(*            the code as a step boundary.                                 *)
(* SpecPop  : populateDocs of the service mixin, with the remote calls of  *)
(*            the relations in flight and answered in any order.           *)
(* SpecFields : authorizeFields, filterFields, excludeFields and the id    *)
(*            renames of the adapter, over small documents.                *)
(* SpecList : the list action: sanitizeParams and _list, page after page.  *)
(* SpecService : started() and the service's connect over the adapter's.   *)
(* SpecMethods : _get, _update, _remove, _create, _insert and               *)
(*            transformDocuments over the memory adapter, one `.then`      *)
(*            handler at a time.                                           *)
(***************************************************************************)
EXTENDS Integers, Sequences, FiniteSets, Bags, TLC

\* ------------------------------------------------------------------ bounds
MaxConns == 2
MaxManagers == 2
MaxOps == 2
MaxDocs == 2

VARIABLES
    managers,          \* every ConnectionManager constructed: its connectionMap
    conns,             \* every DataSource constructed: name, isInitialized
    ops,               \* the bag of suspended async operations (closes, adapter connects)
    adapterOpts,       \* TypeORMDbAdapter.opts.name
    adapterMgr,        \* TypeORMDbAdapter.connectionManager (0: undefined)
    adapterDb,         \* TypeORMDbAdapter.db (0: undefined)
    adapterDataSource, \* TypeORMDbAdapter.dataSource (0: undefined)
    ev,                \* what the last step's call did and how it ended
    populates,         \* settings.populates: the rule of each relation
    populateFields,    \* populateDocs' populateFields: the requested paths
    docs,              \* populateDocs' docs, as the list arr
    single,            \* whether docs was given as one document, not an array
    sent,              \* the remote calls and handler invocations made, in order
    promise,           \* the promise populateDocs returned: idle, waiting, resolved, rejected
    entity,            \* the document a field or id function is called with
    fields,            \* its list argument: the requested, kept or excluded paths
    settingsFields,    \* settings.fields: the service's allow-list
    authorized,        \* what authorizeFields returned
    result,            \* the document the last call returned
    did,               \* the last call: its function, ctx, idField and the document it took
    schema,            \* the service schema: mode, and whether adapter, hooks, validator are set
    startedPromise,    \* the promise started() returned: idle, pending, resolved, rejected, none
    connects,          \* the calls of the service's connect, in order
    paging,            \* the list action: its settings, the table size, the pages returned
    store,             \* the identity values of the stored records
    running,           \* the service method in flight: its arguments and where it stands
    trace              \* what that method has done so far, in order

regVars == <<managers, conns, ops, adapterOpts, adapterMgr, adapterDb, adapterDataSource, ev>>

popVars == <<populates, populateFields, docs, single, sent, promise>>

fldVars == <<entity, fields, settingsFields, authorized, result, did>>

svcVars == <<schema, startedPromise, connects, paging, store, running, trace>>

vars == <<regVars, popVars, fldVars, svcVars>>

\* the service before any of its methods has been called
SvcIdle ==
    /\ schema = [mode |-> "", adapter |-> TRUE, hooks |-> FALSE, validator |-> FALSE]
    /\ startedPromise = "idle"
    /\ connects = <<>>
    /\ paging = <<>>
    /\ store = {}
    /\ running = <<>>
    /\ trace = <<>>

\* ------------------------------------------------------------- the registry
NoName == ""
RegNames == {"default", "A"}
\* the name a caller passes: none (the default applies) or an explicit one
ArgNames == {NoName, "A"}

\* `options.name || "default"` and the default parameter `name = "default"`
NameOrDefault(n) == IF n = NoName THEN "default" ELSE n

EmptyMap == [n \in RegNames |-> 0]

Has(m, n) == n \in RegNames /\ managers[m][n] # 0

MapGet(m, n) == IF n \in RegNames THEN managers[m][n] ELSE 0

NewConn(n) == [name |-> n, isInitialized |-> FALSE]

\* how many more async operations the model lets be suspended at once
FreeOps == MaxOps - BagCardinality(ops)

One(o) == SetToBag({o})

Event(op, m, n, c, outcome, how) ==
    [op |-> op, mgr |-> m, name |-> n, conn |-> c, outcome |-> outcome, how |-> how,
     names |-> <<>>, elems |-> <<>>]

InitWith(optName) ==
    /\ managers = <<EmptyMap>>
    /\ conns = <<>>
    /\ ops = EmptyBag
    /\ adapterOpts = optName
    /\ adapterMgr = 0
    /\ adapterDb = 0
    /\ adapterDataSource = 0
    /\ ev = Event("init", 0, "", 0, "", "")


\* create and close are declared async: what they throw rejects the promise they
\* return; get and remove throw at the call
AsyncMethods == {"create", "close"}

Raised(method) == IF method \in AsyncMethods THEN "rejected" ELSE "throw"

\* ConnectionManager.get
Get(m, arg) ==
    LET n == NameOrDefault(arg) IN
    /\ ev' = IF MapGet(m, n) = 0
             THEN Event("get", m, n, 0, "ConnectionNotFound", Raised("get"))
             ELSE Event("get", m, n, MapGet(m, n), "ok", "return")
    /\ UNCHANGED <<popVars, fldVars, svcVars, managers, conns, ops, adapterOpts, adapterMgr, adapterDb, adapterDataSource>>

RemoveEntryAll(map, n) == EmptyMap

RemoveEntry(map, n) == [map EXCEPT ![n] = 0]

\* ConnectionManager.remove
Remove(m, arg) ==
    LET n == NameOrDefault(arg) IN
    /\ IF MapGet(m, n) = 0
       THEN /\ ev' = Event("remove", m, n, 0, "ConnectionNotFound", Raised("remove"))
            /\ UNCHANGED managers
       ELSE /\ managers' = [managers EXCEPT ![m] = RemoveEntry(managers[m], n)]
            /\ ev' = Event("remove", m, n, MapGet(m, n), "ok", "return")
    /\ UNCHANGED <<popVars, fldVars, svcVars, conns, ops, adapterOpts, adapterMgr, adapterDb, adapterDataSource>>

CreateRejectsNever(m, n) == FALSE

CreateRejectsRegistered(m, n) == Has(m, n)

\* create's check: a registered connection that is initialized
CreateRejects(m, n) == Has(m, n) /\ conns[MapGet(m, n)].isInitialized

\* ConnectionManager.create: an async function, its throw is a rejection
Create(m, optName) ==
    LET n == NameOrDefault(optName) IN
    IF CreateRejects(m, n)
    THEN /\ ev' = Event("create", m, n, 0, "AlreadyHasActiveConnection", Raised("create"))
         /\ UNCHANGED <<popVars, fldVars, svcVars, managers, conns, ops, adapterOpts, adapterMgr, adapterDb, adapterDataSource>>
    ELSE /\ Len(conns) < MaxConns
         /\ conns' = Append(conns, NewConn(n))
         /\ managers' = [managers EXCEPT ![m][n] = Len(conns) + 1]
         /\ ev' = Event("create", m, n, Len(conns) + 1, "ok", "resolved")
         /\ UNCHANGED <<popVars, fldVars, svcVars, ops, adapterOpts, adapterMgr, adapterDb, adapterDataSource>>

\* DataSource.initialize, called by whoever holds the connection create returned
Initialize(c) ==
    /\ \E ok \in BOOLEAN :
         /\ conns' = IF ok THEN [conns EXCEPT ![c].isInitialized = TRUE] ELSE conns
         /\ ev' = Event("initialize", 0, conns[c].name, c,
                        IF ok THEN "ok" ELSE "error", IF ok THEN "resolved" ELSE "rejected")
    /\ UNCHANGED <<popVars, fldVars, svcVars, managers, ops, adapterOpts, adapterMgr, adapterDb, adapterDataSource>>

\* DataSource.destroy settles: the connection is closed, or the driver failed
DestroySettle(o) ==
    /\ o.kind = "close"
    /\ o.pc = "destroying"
    /\ \E ok \in BOOLEAN :
         /\ ops' = (ops (-) One(o)) (+) One([o EXCEPT !.pc = IF ok THEN "ok" ELSE "fail"])
         /\ conns' = IF ok THEN [conns EXCEPT ![o.conn].isInitialized = FALSE] ELSE conns
         /\ ev' = Event("destroy", o.mgr, o.name, o.conn,
                        IF ok THEN "ok" ELSE "error", IF ok THEN "resolved" ELSE "rejected")
    /\ UNCHANGED <<popVars, fldVars, svcVars, managers, adapterOpts, adapterMgr, adapterDb, adapterDataSource>>

CloseMissingAsFalse == [outcome |-> "false", how |-> "resolved"]

\* close of a single unregistered name: throwError inside the async function
CloseMissing == [outcome |-> "ConnectionNotFound", how |-> Raised("close")]

\* closeConnection up to `await connection.destroy()`
CloseOp(m, n) ==
    [kind |-> "close", mgr |-> m, name |-> n, conn |-> MapGet(m, n), pc |-> "destroying"]

\* close(name), the synchronous part
CloseCall(m, arg) ==
    LET n == NameOrDefault(arg) IN
    /\ IF Has(m, n)
       THEN /\ FreeOps > 0
            /\ ops' = ops (+) One(CloseOp(m, n))
            /\ ev' = Event("close", m, n, MapGet(m, n), "pending", "pending")
       ELSE /\ ops' = ops
            /\ ev' = Event("close", m, n, 0, CloseMissing.outcome, CloseMissing.how)
    /\ UNCHANGED <<popVars, fldVars, svcVars, managers, conns, adapterOpts, adapterMgr, adapterDb, adapterDataSource>>

ElemStartsFailFast(m, names, i) ==
    /\ Has(m, names[i])
    /\ \A j \in 1..(i - 1) : Has(m, names[j])

\* an element of close(names): closeConnection when the name is registered
ElemStarts(m, names, i) == Has(m, names[i])

\* close(names): every element's synchronous part, in the order of the array
CloseArrayCall(m, names) ==
    LET started == {i \in 1..Len(names) : ElemStarts(m, names, i)}
        startedOps == {CloseOp(m, names[i]) : i \in started}
    IN
    /\ Cardinality(started) <= FreeOps
    /\ ops' = ops (+) [o \in startedOps |->
                         Cardinality({i \in started : CloseOp(m, names[i]) = o})]
    /\ ev' = [Event("closeArray", m, "", 0, "array", "resolved") EXCEPT
                !.names = names,
                !.elems = [i \in 1..Len(names) |->
                             IF i \in started THEN "pending" ELSE "ConnectionNotFound"]]
    /\ UNCHANGED <<popVars, fldVars, svcVars, managers, conns, adapterOpts, adapterMgr, adapterDb, adapterDataSource>>

CloseOutcomeAlwaysTrue(destroyed, registered) == "true"

\* closeConnection(...).then(() => true).catch(() => false)
CloseOutcome(destroyed, registered) == IF destroyed /\ registered THEN "true" ELSE "false"

CloseResumeRemovingAlways(o) ==
    /\ o.kind = "close"
    /\ o.pc \in {"ok", "fail"}
    /\ managers' = [managers EXCEPT ![o.mgr] = RemoveEntry(managers[o.mgr], o.name)]
    /\ ops' = ops (-) One(o)
    /\ ev' = Event("closeDone", o.mgr, o.name, o.conn,
                   CloseOutcome(o.pc = "ok", Has(o.mgr, o.name)), "resolved")
    /\ UNCHANGED <<popVars, fldVars, svcVars, conns, adapterOpts, adapterMgr, adapterDb, adapterDataSource>>

\* close resumes after the await: this.remove(name), then the outcome
CloseResume(o) ==
    /\ o.kind = "close"
    /\ o.pc \in {"ok", "fail"}
    /\ managers' = IF o.pc = "ok" /\ Has(o.mgr, o.name)
                   THEN [managers EXCEPT ![o.mgr] = RemoveEntry(managers[o.mgr], o.name)]
                   ELSE managers
    /\ ops' = ops (-) One(o)
    /\ ev' = Event("closeDone", o.mgr, o.name, o.conn,
                   CloseOutcome(o.pc = "ok", Has(o.mgr, o.name)), "resolved")
    /\ UNCHANGED <<popVars, fldVars, svcVars, conns, adapterOpts, adapterMgr, adapterDb, adapterDataSource>>

\* ------------------------------------------------------------- the adapter
\* TypeORMDbAdapter.connect up to `await this.connectionManager.create(this.opts)`
AdapterConnect ==
    LET n == NameOrDefault(adapterOpts)
        m == Len(managers) + 1
    IN
    /\ Len(managers) < MaxManagers
    /\ Len(conns) < MaxConns
    /\ FreeOps > 0
    /\ managers' = Append(managers, [EmptyMap EXCEPT ![n] = Len(conns) + 1])
    /\ adapterMgr' = m
    /\ conns' = Append(conns, NewConn(n))
    /\ ops' = ops (+) One([kind |-> "connect", mgr |-> m, name |-> n,
                           conn |-> Len(conns) + 1, pc |-> "created"])
    /\ ev' = Event("adapterConnect", m, n, Len(conns) + 1, "pending", "pending")
    /\ UNCHANGED <<adapterOpts, adapterDb, adapterDataSource>>

\* the adapter's connect called on its own
AdapterConnectCall == AdapterConnect /\ UNCHANGED <<popVars, fldVars, svcVars>>

\* this.db = <the created connection>; this.db.initialize() is called
AdapterConnectInitialize(o) ==
    /\ o.kind = "connect"
    /\ o.pc = "created"
    /\ adapterDb' = o.conn
    /\ ops' = (ops (-) One(o)) (+) One([o EXCEPT !.pc = "initializing"])
    /\ ev' = Event("adapterInitialize", o.mgr, o.name, o.conn, "pending", "pending")
    /\ UNCHANGED <<popVars, fldVars, svcVars, managers, conns, adapterOpts, adapterMgr, adapterDataSource>>

\* initialize settles; on success this.dataSource = datasource
AdapterConnectSettle(o) ==
    /\ o.kind = "connect"
    /\ o.pc = "initializing"
    /\ \E ok \in BOOLEAN :
         /\ conns' = IF ok THEN [conns EXCEPT ![o.conn].isInitialized = TRUE] ELSE conns
         /\ adapterDataSource' = IF ok THEN o.conn ELSE adapterDataSource
         /\ ev' = Event("adapterConnectDone", o.mgr, o.name, o.conn,
                        IF ok THEN "ok" ELSE "error", IF ok THEN "resolved" ELSE "rejected")
    /\ ops' = ops (-) One(o)
    /\ UNCHANGED <<popVars, fldVars, svcVars, managers, adapterOpts, adapterMgr, adapterDb>>

\* TypeORMDbAdapter.disconnect: close(dataSource.name) when the manager has it
AdapterDisconnect ==
    /\ adapterDataSource # 0
    /\ LET n == NameOrDefault(conns[adapterDataSource].name)
           m == adapterMgr
       IN IF Has(m, n)
          THEN /\ FreeOps > 0
               /\ ops' = ops (+) One(CloseOp(m, n))
               /\ ev' = Event("adapterDisconnect", m, n, MapGet(m, n), "pending", "pending")
          ELSE /\ ops' = ops
               /\ ev' = Event("adapterDisconnect", m, n, 0, "not registered", "resolved")
    /\ UNCHANGED <<popVars, fldVars, svcVars, managers, conns, adapterOpts, adapterMgr, adapterDb, adapterDataSource>>

\* ------------------------------------------------------------ populateDocs
\* A value of a document field: undefined, null, a key (0 is the falsy key), an
\* array of values, or the sub-document a remote service holds for a key.
Undef == [kind |-> "undefined", n |-> 0, items |-> <<>>]

Null == [kind |-> "null", n |-> 0, items |-> <<>>]

Key(k) == [kind |-> "key", n |-> k, items |-> <<>>]

Arr(items) == [kind |-> "array", n |-> 0, items |-> items]

SubDoc(k) == [kind |-> "doc", n |-> k, items |-> <<>>]

Truthy(v) == v.kind \in {"array", "doc"} \/ (v.kind = "key" /\ v.n # 0)

\* lodash compact: the list without its falsy entries
compact(list) == SelectSeq(list, Truthy)

RECURSIVE flattenDeep(_)
\* lodash flattenDeep: nested arrays replaced by their entries, at every depth
flattenDeep(list) ==
    IF list = <<>> THEN <<>>
    ELSE (IF Head(list).kind = "array" THEN flattenDeep(Head(list).items) ELSE <<Head(list)>>)
         \o flattenDeep(Tail(list))

RECURSIVE uniq(_)
\* lodash uniq: the first occurrence of every value, in order
uniq(list) ==
    IF list = <<>> THEN <<>>
    ELSE LET front == uniq(SubSeq(list, 1, Len(list) - 1))
             last == list[Len(list)]
         IN IF \E i \in 1..Len(front) : front[i] = last THEN front ELSE Append(front, last)

\* the relations, in the key order of settings.populates
RelOrder == <<"author", "reviewer">>

RelNames == {RelOrder[i] : i \in 1..Len(RelOrder)}

DocFields == {"author", "authorId", "reviewer"}

\* a requested path, as its dot-separated segments
Path(p) == p

NoParams == [keys |-> {}, populate |-> <<>>]

Absent == [form |-> "absent", action |-> "", field |-> "", populate |-> <<>>, params |-> NoParams]

StringRule(action) == [Absent EXCEPT !.form = "string", !.action = action]

ActionRule(action, field, populate, params) ==
    [form |-> "object", action |-> action, field |-> field, populate |-> populate,
     params |-> params]

HandlerRule == [Absent EXCEPT !.form = "function"]

\* Object.keys(this.settings.populates)
settingPopulateFields == SelectSeq(RelOrder, LAMBDA name : populates[name].form # "absent")

\* a function rule is a handler; a string rule is {action: rule}
IsHandler(rule) == rule.form = "function"

\* if (rule.field === undefined) rule.field = populatesField
FieldOf(name) == IF populates[name].field = "" THEN name ELSE populates[name].field

\* settingPopulateField === populateField || populateField.startsWith(settingPopulateField + ".")
Matches(name, path) == Len(path) >= 1 /\ path[1] = name

\* settingPopulateFields.find(...): the first relation a requested path falls under
FirstMatch(path) ==
    LET hits == {i \in 1..Len(settingPopulateFields) : Matches(settingPopulateFields[i], path)}
    IN IF hits = {} THEN ""
       ELSE settingPopulateFields[CHOOSE i \in hits : \A j \in hits : i <= j]

groupedPopulateFields(name) == SelectSeq(populateFields, LAMBDA path : FirstMatch(path) = name)

get(doc, field) == doc[field]

setEveryField(doc, field, value) == [f \in DOMAIN doc |-> value]

set(doc, field, value) == [doc EXCEPT ![field] = value]

\* uniq(flattenDeep(compact(arr.map((doc) => get(doc, rule.field)))))
idList(arr, field) ==
    uniq(flattenDeep(compact([i \in 1..Len(arr) |-> get(arr[i], field)])))

RECURSIVE PropertyKey(_)
\* the property populatedDocs[id] reads: the key itself, or the key an array of
\* one entry prints as; -1 when the value prints as no key
PropertyKey(v) ==
    IF v.kind = "key" THEN v.n
    ELSE IF v.kind = "array" /\ Len(v.items) = 1 THEN PropertyKey(v.items[1])
    ELSE -1

\* populatedDocs[id], for a response that maps the keys in `mapping`
Lookup(mapping, v) == IF PropertyKey(v) \in mapping THEN SubDoc(PropertyKey(v)) ELSE Undef

resultTransformIntoField(arr, name, mapping) ==
    [d \in 1..Len(arr) |->
       LET id == get(arr[d], FieldOf(name)) IN
       IF id.kind = "array"
       THEN set(arr[d], FieldOf(name),
                Arr(compact([i \in 1..Len(id.items) |-> Lookup(mapping, id.items[i])])))
       ELSE set(arr[d], FieldOf(name), Lookup(mapping, id))]

\* resultTransform: the documents after the mapping of a relation was merged in
resultTransform(arr, name, mapping) ==
    [d \in 1..Len(arr) |->
       LET id == get(arr[d], FieldOf(name)) IN
       IF id.kind = "array"
       THEN set(arr[d], name,
                Arr(compact([i \in 1..Len(id.items) |-> Lookup(mapping, id.items[i])])))
       ELSE set(arr[d], name, Lookup(mapping, id))]

\* the populate list sent on: "post.author" becomes "author", "post" is left
\* out, and the rule's own populate list follows
PopulateParam(name) ==
    LET grouped == groupedPopulateFields(name)
        sliced == [i \in 1..Len(grouped) |-> Tail(grouped[i])]
    IN SelectSeq(sliced, LAMBDA field : field # <<>>) \o populates[name].populate

\* Object.assign({id, mapping: true, populate}, rule.params || {}), and the
\* populate key deleted when its list is empty
ActionCall(name) ==
    LET rule == populates[name]
        populate == IF "populate" \in rule.params.keys THEN rule.params.populate
                    ELSE PopulateParam(name)
    IN [rel |-> name, kind |-> "action", action |-> rule.action,
        id |-> idList(docs, FieldOf(name)), mapping |-> TRUE,
        populate |-> populate, hasPopulate |-> populate # <<>>,
        extra |-> rule.params.keys \ {"populate"},
        state |-> "pending", answer |-> {}]

HandlerCall(name) ==
    [rel |-> name, kind |-> "handler", action |-> "",
     id |-> idList(docs, FieldOf(name)), mapping |-> FALSE,
     populate |-> <<>>, hasPopulate |-> FALSE, extra |-> {},
     state |-> "pending", answer |-> {}]

CallsForEachDoc(name) ==
    IF populates[name].form = "absent" \/ groupedPopulateFields(name) = <<>> THEN <<>>
    ELSE IF IsHandler(populates[name]) THEN <<HandlerCall(name)>>
    ELSE [d \in 1..Len(docs) |-> ActionCall(name)]

\* one pass of the loop over settingPopulateFields: the promise pushed, if any
CallsFor(name) ==
    IF populates[name].form = "absent" \/ groupedPopulateFields(name) = <<>> THEN <<>>
    ELSE IF IsHandler(populates[name]) THEN <<HandlerCall(name)>>
    ELSE IF Len(idList(docs, FieldOf(name))) > 0 THEN <<ActionCall(name)>>
    ELSE <<>>

RECURSIVE CallsFrom(_)
CallsFrom(i) == IF i > Len(RelOrder) THEN <<>> ELSE CallsFor(RelOrder[i]) \o CallsFrom(i + 1)

\* !this.settings.populates || !Array.isArray(populateFields) || populateFields.length == 0
ReturnsAtOnce == settingPopulateFields = <<>> \/ populateFields = <<>>

\* populateDocs, up to `return all(promises).then(() => docs)`
PopulateCall ==
    /\ promise = "idle"
    /\ IF ReturnsAtOnce
       THEN /\ promise' = "resolved"
            /\ sent' = <<>>
       ELSE /\ promise' = "waiting"
            /\ sent' = CallsFrom(1)
    /\ UNCHANGED <<regVars, fldVars, svcVars, populates, populateFields, docs, single>>

\* the keys a response may map: all that were asked for, all but one, or none
KeysOf(ids) == {ids[i].n : i \in {j \in 1..Len(ids) : ids[j].kind = "key"}}

Answers(ids) == {KeysOf(ids), {}} \cup {KeysOf(ids) \ {k} : k \in KeysOf(ids)}

\* ctx.call(rule.action, params) answers with a mapping: .then(resultTransform)
Respond(i) ==
    /\ sent[i].kind = "action"
    /\ sent[i].state = "pending"
    /\ \E mapping \in Answers(sent[i].id) :
         /\ docs' = resultTransform(docs, sent[i].rel, mapping)
         /\ sent' = [sent EXCEPT ![i].state = "done", ![i].answer = mapping]
    /\ UNCHANGED <<regVars, fldVars, svcVars, populates, populateFields, single, promise>>

\* the handler's promise resolves: the handler has written its relation's field
HandlerDone(i) ==
    /\ sent[i].kind = "handler"
    /\ sent[i].state = "pending"
    /\ docs' = resultTransform(docs, sent[i].rel, KeysOf(sent[i].id))
    /\ sent' = [sent EXCEPT ![i].state = "done", ![i].answer = KeysOf(sent[i].id)]
    /\ UNCHANGED <<regVars, fldVars, svcVars, populates, populateFields, single, promise>>

FailSwallowed(i) ==
    /\ sent[i].state = "pending"
    /\ sent' = [sent EXCEPT ![i].state = "failed"]
    /\ promise' = promise
    /\ UNCHANGED <<regVars, fldVars, svcVars, populates, populateFields, docs, single>>

\* a remote call or a handler fails: all(promises) rejects with the error of the
\* first promise to fail (state "failed"), and drops the error of a later one
Fail(i) ==
    /\ sent[i].state = "pending"
    /\ sent' = [sent EXCEPT ![i].state = IF promise = "waiting" THEN "failed" ELSE "failedLate"]
    /\ promise' = IF promise = "waiting" THEN "rejected" ELSE promise
    /\ UNCHANGED <<regVars, fldVars, svcVars, populates, populateFields, docs, single>>

\* all(promises).then(() => docs)
PopulateResolve ==
    /\ promise = "waiting"
    /\ \A i \in 1..Len(sent) : sent[i].state = "done"
    /\ promise' = "resolved"
    /\ UNCHANGED <<regVars, fldVars, svcVars, populates, populateFields, docs, single, sent>>

\* the documents, rules and requests populateDocs is called with
K(k) == Key(k)

Doc(author, authorId, reviewer) ==
    [author |-> author, authorId |-> authorId, reviewer |-> reviewer]

DocChoices ==
    { Doc(K(1), Arr(<<K(1), K(2), K(2), K(3)>>), K(2)),
      Doc(Arr(<<K(2), Null, Arr(<<K(1), K(0)>>)>>), K(1), Undef),
      Doc(K(0), Undef, K(1)),
      Doc(Arr(<<K(1), K(1), K(2)>>), Arr(<<>>), Arr(<<Arr(<<K(2)>>)>>)) }

DocLists == UNION {[1..k -> DocChoices] : k \in 0..MaxDocs}

AuthorRules ==
    { StringRule("users.get"),
      ActionRule("users.get", "authorId", <<>>, NoParams),
      ActionRule("users.get", "", <<Path(<<"avatar">>)>>, NoParams),
      ActionRule("users.get", "", <<>>,
                 [keys |-> {"populate", "fields"}, populate |-> <<Path(<<"groups">>)>>]),
      HandlerRule }

ReviewerRules ==
    { Absent,
      StringRule("people.get"),
      ActionRule("people.get", "author", <<>>, NoParams) }

RequestChoices ==
    { <<>>,
      <<Path(<<"author">>)>>,
      <<Path(<<"author">>), Path(<<"author", "profile">>)>>,
      <<Path(<<"reviewer">>), Path(<<"author", "profile">>), Path(<<"other">>)>>,
      <<Path(<<"author">>), Path(<<"reviewer">>)>>,
      <<Path(<<"other", "author">>)>> }

NextPop ==
    \/ PopulateCall
    \/ \E i \in 1..Len(sent) : Respond(i)
    \/ \E i \in 1..Len(sent) : HandlerDone(i)
    \/ \E i \in 1..Len(sent) : Fail(i)
    \/ PopulateResolve

\* no populateDocs call: the population variables outside SpecPop
PopIdle ==
    /\ populates = [author |-> Absent, reviewer |-> Absent]
    /\ populateFields = <<>>
    /\ docs = <<>>
    /\ single = FALSE
    /\ sent = <<>>
    /\ promise = "idle"

\* ------------------------------------------------ field lists and documents
\* A path is the list of the segments of a dotted path. A document maps each of
\* its leaf paths to the value there: a value, "null", "undefined" (a property
\* that holds undefined) or "{}" (an empty object).
MaxFields == 2

EmptyDoc == <<>>

DocOf(pairs) == [p \in {x[1] : x \in pairs} |-> (CHOOSE x \in pairs : x[1] = p)[2]]

IsPrefix(p, q) == Len(p) <= Len(q) /\ SubSeq(q, 1, Len(p)) = p

IsProperPrefix(p, q) == Len(p) < Len(q) /\ IsPrefix(p, q)

\* the values a path resolves to: undefined, a leaf, or an object with its own leaf paths
Undefined == [def |-> FALSE, obj |-> FALSE, leaf |-> "", sub |-> EmptyDoc]

LeafValue(v) == [def |-> TRUE, obj |-> FALSE, leaf |-> v, sub |-> EmptyDoc]

ObjectValue(sub) == [def |-> TRUE, obj |-> TRUE, leaf |-> "", sub |-> sub]

Below(doc, p) == {q \in DOMAIN doc : IsProperPrefix(p, q)}

\* lodash get(doc, path)
getPath(doc, p) ==
    IF p \in DOMAIN doc
    THEN (IF doc[p] = "undefined" THEN Undefined ELSE LeafValue(doc[p]))
    ELSE IF Below(doc, p) = {} THEN Undefined
    ELSE ObjectValue([s \in {SubSeq(q, Len(p) + 1, Len(q)) : q \in Below(doc, p)} |-> doc[p \o s]])

\* the leaf paths a value put at path p brings
Placed(p, v) ==
    IF v.obj THEN [q \in {p \o s : s \in DOMAIN v.sub} |-> v.sub[SubSeq(q, Len(p) + 1, Len(q))]]
    ELSE [q \in {p} |-> IF v.def THEN v.leaf ELSE "undefined"]

\* lodash set(res, path, value): what is not an object on the way becomes one,
\* what was at the path is replaced
setPath(res, p, v) ==
    LET kept == {q \in DOMAIN res : ~IsPrefix(q, p) /\ ~IsPrefix(p, q)}
        placed == Placed(p, v)
    IN [q \in kept \cup DOMAIN placed |-> IF q \in DOMAIN placed THEN placed[q] ELSE res[q]]

\* lodash unset(res, path): the property is deleted from its parent, which stays
unsetPath(res, p) ==
    LET parent == SubSeq(p, 1, Len(p) - 1)
        gone == {q \in DOMAIN res : IsPrefix(p, q)}
        kept == DOMAIN res \ gone
        emptied == Len(p) > 1 /\ gone # {} /\ ~\E q \in kept : IsPrefix(parent, q)
    IN [q \in kept \cup (IF emptied THEN {parent} ELSE {}) |->
          IF q \in kept THEN res[q] ELSE "{}"]

cloneDeep(doc) == doc

\* a list argument: an array of paths, or no array (null, undefined)
NoArray == [array |-> FALSE, items |-> <<>>]

List(items) == [array |-> TRUE, items |-> items]

InList(p, list) == \E i \in 1..Len(list) : list[i] = p

\* askedField's own part of allowedFields: rule 1 only
AllowedForExactOnly(askedField) ==
    IF InList(askedField, settingsFields.items) THEN <<askedField>> ELSE <<>>

\* the body of askedFields.forEach: what one asked field adds to allowedFields
AllowedFor(askedField) ==
    IF InList(askedField, settingsFields.items) THEN <<askedField>>
    ELSE IF /\ Len(askedField) > 1
            /\ \E k \in 1..(Len(askedField) - 1) :
                   InList(SubSeq(askedField, 1, k), settingsFields.items)
         THEN <<askedField>>
    ELSE SelectSeq(settingsFields.items, LAMBDA settingField : IsProperPrefix(askedField, settingField))

RECURSIVE AllowedFrom(_)
AllowedFrom(asked) ==
    IF asked = <<>> THEN <<>> ELSE AllowedFor(Head(asked)) \o AllowedFrom(Tail(asked))

authorizeFields(askedFields) ==
    IF settingsFields.array /\ Len(settingsFields.items) > 0
    THEN List(IF askedFields.array /\ Len(askedFields.items) > 0
              THEN AllowedFrom(askedFields.items) ELSE <<>>)
    ELSE askedFields

RECURSIVE FilterIntoWithPlaceholders(_, _, _)
FilterIntoWithPlaceholders(doc, list, res) ==
    IF list = <<>> THEN res
    ELSE FilterIntoWithPlaceholders(doc, Tail(list),
                                    setPath(res, Head(list), getPath(doc, Head(list))))

RECURSIVE FilterInto(_, _, _)
\* fields.forEach((n) => { const v = get(doc, n); if (v !== undefined) set(res, n, v) })
FilterInto(doc, list, res) ==
    IF list = <<>> THEN res
    ELSE FilterInto(doc, Tail(list),
                    IF getPath(doc, Head(list)).def
                    THEN setPath(res, Head(list), getPath(doc, Head(list))) ELSE res)

filterFieldsUnlessEmpty(doc, list) ==
    IF list.array /\ Len(list.items) > 0 THEN FilterInto(doc, list.items, EmptyDoc) ELSE doc

filterFields(doc, list) ==
    IF list.array THEN FilterInto(doc, list.items, EmptyDoc) ELSE doc

filterStageUnauthorized(item, ctx, paramsFields) ==
    IF ctx /\ paramsFields.array
    THEN filterFields(item, paramsFields)
    ELSE filterFields(item, settingsFields)

\* transformDocuments, its "Filter fields" stage on one item
filterStage(item, ctx, paramsFields) ==
    IF ctx /\ paramsFields.array
    THEN filterFields(item, authorizeFields(paramsFields))
    ELSE filterFields(item, settingsFields)

RECURSIVE UnsetAll(_, _)
UnsetAll(res, list) ==
    IF list = <<>> THEN res ELSE UnsetAll(unsetPath(res, Head(list)), Tail(list))

\* a call's outcome: what it returned, and the document it was given afterwards
Outcome(res, arg) == [res |-> res, arg |-> arg]

excludeInPlace(doc, list) == Outcome(UnsetAll(doc, list), UnsetAll(doc, list))

\* const res = cloneDeep(doc); fields.forEach((field) => unset(res, field))
excludeFieldsOf(doc, list) == Outcome(UnsetAll(cloneDeep(doc), list), doc)

excludeFields(doc, list) ==
    IF list.array /\ Len(list.items) > 0 THEN excludeFieldsOf(doc, list.items)
    ELSE Outcome(doc, doc)

\* entity[key] = value
Assign(doc, key, v) ==
    LET kept == {q \in DOMAIN doc : q[1] # key}
        placed == Placed(<<key>>, v)
    IN [q \in kept \cup DOMAIN placed |-> IF q \in DOMAIN placed THEN placed[q] ELSE doc[q]]

\* delete entity[key]
Delete(doc, key) == [q \in {r \in DOMAIN doc : r[1] # key} |-> doc[q]]

beforeSaveTransformID(ent, idField) ==
    Outcome(IF idField # "_id" /\ getPath(ent, <<idField>>).def
            THEN Delete(Assign(cloneDeep(ent), "_id", getPath(ent, <<idField>>)), idField)
            ELSE cloneDeep(ent), ent)

afterRetrieveDroppingId(ent, idField) ==
    Outcome(IF idField # "_id" THEN Delete(ent, "_id") ELSE ent,
            IF idField # "_id" THEN Delete(ent, "_id") ELSE ent)

\* the entity itself is changed and returned
afterRetrieveTransformID(ent, idField) ==
    LET changed == IF idField # "_id"
                   THEN Delete(Assign(ent, idField, getPath(ent, <<"_id">>)), "_id")
                   ELSE ent
    IN Outcome(changed, changed)

Sources == {"entity", "result"}

IdFields == {"id", "_id"}

Call(op, ctx, idField, from, arg) ==
    [op |-> op, ctx |-> ctx, idField |-> idField, from |-> from, arg |-> arg]

NoCall == Call("init", FALSE, "", "", EmptyDoc)

\* the document a call takes: the one given at first, or what the last call returned
Taken(from) == IF from = "entity" THEN entity ELSE result

CanTake(from) == from = "result" => did.op \notin {"init", "authorizeFields"}

GiveBack(from, out) ==
    /\ result' = out.res
    /\ entity' = IF from = "entity" THEN out.arg ELSE entity

AuthorizeFields ==
    /\ authorized' = authorizeFields(fields)
    /\ did' = Call("authorizeFields", FALSE, "", "", EmptyDoc)
    /\ UNCHANGED <<regVars, popVars, svcVars, entity, fields, settingsFields, result>>

FilterFields ==
    /\ result' = filterFields(entity, fields)
    /\ did' = Call("filterFields", FALSE, "", "entity", entity)
    /\ UNCHANGED <<regVars, popVars, svcVars, entity, fields, settingsFields, authorized>>

TransformDocuments(ctx) ==
    /\ result' = filterStage(entity, ctx, fields)
    /\ did' = Call("transformDocuments", ctx, "", "entity", entity)
    /\ UNCHANGED <<regVars, popVars, svcVars, entity, fields, settingsFields, authorized>>

ExcludeFields(from) ==
    /\ CanTake(from)
    /\ GiveBack(from, excludeFields(Taken(from), fields))
    /\ did' = Call("excludeFields", FALSE, "", from, Taken(from))
    /\ UNCHANGED <<regVars, popVars, svcVars, fields, settingsFields, authorized>>

BeforeSaveTransformID(idField) ==
    /\ GiveBack("entity", beforeSaveTransformID(entity, idField))
    /\ did' = Call("beforeSaveTransformID", FALSE, idField, "entity", entity)
    /\ UNCHANGED <<regVars, popVars, svcVars, fields, settingsFields, authorized>>

\* applied to what was read back: the document the last call returned
AfterRetrieveTransformID(idField) ==
    /\ CanTake("result")
    /\ GiveBack("result", afterRetrieveTransformID(result, idField))
    /\ did' = Call("afterRetrieveTransformID", FALSE, idField, "result", result)
    /\ UNCHANGED <<regVars, popVars, svcVars, fields, settingsFields, authorized>>

\* the documents, lists and allow-lists the functions are called with
P(a) == <<a>>

PP(a, b) == <<a, b>>

EntityChoices ==
    { DocOf({<<P("a"), "1">>, <<PP("b", "c"), "2">>, <<PP("b", "d"), "3">>}),
      DocOf({<<PP("a", "c"), "1">>, <<P("b"), "undefined">>}),
      DocOf({<<PP("a", "c"), "undefined">>, <<P("z"), "null">>}),
      EmptyDoc,
      DocOf({<<P("a"), "{}">>, <<PP("b", "c"), "1">>}),
      DocOf({<<P("id"), "1">>, <<P("a"), "1">>}),
      DocOf({<<P("id"), "1">>, <<P("_id"), "2">>, <<PP("b", "c"), "1">>}),
      DocOf({<<P("_id"), "2">>, <<P("a"), "1">>}),
      DocOf({<<P("id"), "null">>}),
      DocOf({<<P("id"), "undefined">>, <<P("_id"), "2">>}) }

PathChoices == {P("a"), PP("a", "c"), PP("b", "c"), P("z")}

FieldLists == {NoArray} \cup {List(l) : l \in UNION {[1..k -> PathChoices] : k \in 0..MaxFields}}

SettingsChoices ==
    { NoArray,
      List(<<>>),
      List(<<P("a"), P("b")>>),
      List(<<PP("a", "c")>>),
      List(<<PP("b", "c"), PP("b", "d"), P("z")>>),
      List(<<P("a")>>) }

InitFields ==
    /\ entity \in EntityChoices
    /\ fields \in FieldLists
    /\ settingsFields \in SettingsChoices
    /\ authorized = NoArray
    /\ result = EmptyDoc
    /\ did = NoCall
    /\ InitWith(NoName)
    /\ PopIdle
    /\ SvcIdle

NextFields ==
    \/ AuthorizeFields
    \/ FilterFields
    \/ \E ctx \in BOOLEAN : TransformDocuments(ctx)
    \/ \E from \in Sources : ExcludeFields(from)
    \/ \E idField \in IdFields : BeforeSaveTransformID(idField)
    \/ \E idField \in IdFields : AfterRetrieveTransformID(idField)

\* no field or id function in use: their variables outside SpecFields
FldIdle ==
    /\ entity = EmptyDoc
    /\ fields = NoArray
    /\ settingsFields = NoArray
    /\ authorized = NoArray
    /\ result = EmptyDoc
    /\ did = NoCall

\* ------------------------------------------------------- connect and started
\* schema.mode: unset, standard in two spellings, multi-tenant
Modes == {"", "standard", "Standard", "mt"}

toLowerCase(s) == IF s = "Standard" THEN "standard" ELSE s

\* lodash isEmpty of a mode: only the unset one
isEmpty(mode) == mode = ""

\* the default parameter `mode = this.schema.mode`
ModeOrSchema(mode) == IF mode = "" THEN schema.mode ELSE mode

\* The service's connect up to the promise it returns.  Both branches call the
\* adapter's connect, which takes no parameter: mode, options and cb are passed
\* in the non-empty branch and read by nobody.  `calls` is what of `connects`
\* came before; cbWith lists the connections cb has been invoked with.
Connect(calls, mode, options, cb, by) ==
    /\ AdapterConnect
    /\ connects' = Append(calls, [mode |-> ModeOrSchema(mode), options |-> options, cb |-> cb,
                                  passed |-> ~isEmpty(ModeOrSchema(mode)),
                                  conn |-> Len(conns) + 1, by |-> by,
                                  state |-> "pending", cbWith |-> <<>>])

\* this.connect(mode, options, cb) called by the service's own code
ConnectCall(mode, options, cb) ==
    /\ schema.adapter
    /\ Connect(connects, mode, options, cb, "caller")
    /\ UNCHANGED <<popVars, fldVars, schema, startedPromise, paging, store, running, trace>>

\* started(): in standard or unset mode a promise that runs connecting();
\* without an adapter a rejection; in any other mode nothing
Started ==
    /\ startedPromise = "idle"
    /\ IF schema.mode = "" \/ toLowerCase(schema.mode) = "standard"
       THEN IF schema.adapter
            THEN /\ Connect(connects, "", NoName, FALSE, "started")
                 /\ startedPromise' = "pending"
            ELSE /\ startedPromise' = "rejected"
                 /\ UNCHANGED <<regVars, connects>>
       ELSE /\ startedPromise' = "none"
            /\ UNCHANGED <<regVars, connects>>
    /\ UNCHANGED <<popVars, fldVars, schema, paging, store, running, trace>>

\* the adapter's connect of call i is no longer in flight
AdapterSettled(i) ==
    \A o \in BagToSet(ops) : ~(o.kind = "connect" /\ o.conn = connects[i].conn)

\* how the promise of the service's connect settles, given whether the
\* adapter's did: `.then(afterConnected)` on success, and `.catch` logs the
\* error and returns, so the promise is resolved either way
connectPromise(ok) == "resolved"

\* The continuation of the service's connect once the adapter's promise has
\* settled, and for the call made by started() what started chained on it:
\* `.then(resolve)`, or `.catch` with the next connecting() after the delay.
ConnectSettled(i) ==
    LET c == connects[i]
        how == connectPromise(conns[c.conn].isInitialized)
        settled == [connects EXCEPT ![i].state = how]
    IN
    /\ c.state = "pending"
    /\ AdapterSettled(i)
    /\ IF c.by = "started" /\ how = "rejected"
       THEN /\ Connect(settled, "", NoName, FALSE, "started")
            /\ UNCHANGED startedPromise
       ELSE /\ connects' = settled
            /\ startedPromise' = IF c.by = "started" THEN "resolved" ELSE startedPromise
            /\ UNCHANGED regVars
    /\ UNCHANGED <<popVars, fldVars, schema, paging, store, running, trace>>

\* this.connect() and this.connect("mt", options, cb)
ConnectCalls == {<<"", NoName, FALSE>>} \cup {<<"mt", options, TRUE>> : options \in ArgNames}

InitService ==
    /\ managers = <<>>
    /\ conns = <<>>
    /\ ops = EmptyBag
    /\ adapterOpts \in {NoName, "A"}
    /\ adapterMgr = 0
    /\ adapterDb = 0
    /\ adapterDataSource = 0
    /\ ev = Event("init", 0, "", 0, "", "")
    /\ PopIdle /\ FldIdle
    /\ schema \in [mode : Modes, adapter : BOOLEAN, hooks : {FALSE}, validator : {FALSE}]
    /\ startedPromise = "idle"
    /\ connects = <<>>
    /\ paging = <<>>
    /\ store = {}
    /\ running = <<>>
    /\ trace = <<>>

NextService ==
    \/ Started
    \/ \E call \in ConnectCalls : ConnectCall(call[1], call[2], call[3])
    \/ \E o \in BagToSet(ops) : AdapterConnectInitialize(o)
    \/ \E o \in BagToSet(ops) : AdapterConnectSettle(o)
    \/ \E i \in 1..Len(connects) : ConnectSettled(i)

\* ----------------------------------------------------------- the list action
MaxRows == 5
MaxPageSize == 3

\* an absent (or zero, equally falsy) page or pageSize of a request
Absent0 == 0

\* sanitizeParams for an action named *.list: the defaults, the pageSize cap,
\* limit and offset from page and pageSize, then the cap of limit alone
sanitizeParams(settings, p) ==
    LET pageSize0 == IF p.pageSize = Absent0 THEN settings.pageSize ELSE p.pageSize
        page == IF p.page = Absent0 THEN 1 ELSE p.page
        pageSize == IF settings.maxPageSize > 0 /\ pageSize0 > settings.maxPageSize
                    THEN settings.maxPageSize ELSE pageSize0
        limit == pageSize
        offset == (page - 1) * pageSize
    IN [page |-> page, pageSize |-> pageSize, offset |-> offset,
        limit |-> IF settings.maxLimit > 0 /\ limit > settings.maxLimit
                  THEN settings.maxLimit ELSE limit]

\* adapter.find(params) over a table of `total` rows numbered 1..total in the
\* order of the query: the rows after the first `offset`, at most `limit` of them
find(total, params) ==
    LET n == IF total - params.offset < params.limit THEN total - params.offset ELSE params.limit
    IN [i \in 1..(IF n < 0 THEN 0 ELSE n) |-> params.offset + i]

\* _list: the rows of the window, the count of all rows, the page as sanitized
_list(total, params) ==
    [rows |-> find(total, params), total |-> total, page |-> params.page,
     pageSize |-> params.pageSize,
     totalPages |-> (total + params.pageSize - 1) \div params.pageSize]

\* the list action for the next page of a client that reads page 1, 2, ... with
\* one pageSize, up to the totalPages the first response reported
ListPage(page) ==
    /\ paging # <<>>
    /\ page \in {Absent0, 1} \cup 2..(MaxRows + 1)
    /\ (IF page = Absent0 THEN 1 ELSE page) = Len(paging.got) + 1
    /\ paging.got # <<>> => page <= paging.got[1].res.totalPages
    /\ LET params == sanitizeParams(paging.settings, [page |-> page, pageSize |-> paging.pageSize])
       IN paging' = [paging EXCEPT !.got = Append(@, [params |-> params,
                                                      res |-> _list(paging.total, params)])]
    /\ UNCHANGED <<regVars, popVars, fldVars, schema, startedPromise, connects, store, running, trace>>

\* settings.maxPageSize and settings.maxLimit: a positive cap, or none (-1, 0)
Caps == {-1, 0} \cup 1..MaxPageSize

InitList ==
    /\ InitWith(NoName) /\ PopIdle /\ FldIdle
    /\ schema = [mode |-> "", adapter |-> TRUE, hooks |-> FALSE, validator |-> FALSE]
    /\ startedPromise = "idle"
    /\ connects = <<>>
    /\ store = {}
    /\ running = <<>>
    /\ trace = <<>>
    /\ \E pageSize \in 1..MaxPageSize, maxPageSize \in Caps, maxLimit \in Caps,
          total \in 0..MaxRows, requested \in {Absent0} \cup 1..(MaxPageSize + 1) :
         paging = [settings |-> [pageSize |-> pageSize, maxPageSize |-> maxPageSize,
                                 maxLimit |-> maxLimit],
                   total |-> total, pageSize |-> requested, got |-> <<>>]

NextList == \E page \in 0..(MaxRows + 1) : ListPage(page)

\* -------------------------------------------------------- the entity methods
MaxIds == 2

\* the identity values a stored record can have
Ids == 1..MaxIds

\* What a method hands on as its document(s): an array of records, one
\* record, or a value that is neither: null (what a lookup without match
\* gives) or a number (what the storage's remove gives: how many it removed).
Docs(keys) == [keys |-> keys, array |-> TRUE, object |-> TRUE, count |-> 0]

OneDoc(k) == [keys |-> <<k>>, array |-> FALSE, object |-> TRUE, count |-> 0]

Number(n) == [keys |-> <<>>, array |-> FALSE, object |-> FALSE, count |-> n]

NullDoc == Number(0)

NotOrEmpty(doc) == (~doc.object /\ doc.count = 0) \/ (doc.array /\ doc.keys = <<>>)

\* `!doc`: null and 0 are falsy; a record, an array (an empty one too) and
\* any other number are not
Not(doc) == ~doc.array /\ ~doc.object /\ doc.count = 0

NoError == [name |-> "", id |-> <<>>, code |-> 0, message |-> ""]

\* new EntityNotFoundError(id): MoleculerClientError("Entity not found", 404, "", {id})
EntityNotFoundError(id) ==
    [name |-> "EntityNotFoundError", id |-> id, code |-> 404, message |-> "Entity not found"]

\* what the entityValidator of the settings rejects with
ValidationError == [name |-> "ValidationError", id |-> <<>>, code |-> 422, message |-> ""]

\* the _insert call with neither entity nor entities
InvalidRequest ==
    [name |-> "MoleculerClientError", id |-> <<>>, code |-> 400,
     message |-> "Invalid request! The 'params' must contain 'entity' or 'entities'!"]

\* encodeID and decodeID as the mixin defines them
encodeID(id) == id

decodeID(id) == id

transformChainPopulateFirst ==
    <<"transformDocuments", "entityToObject", "populateDocs", "afterRetrieveTransformID",
      "encodeID", "filterFields", "excludeFields", "return">>

\* the `.then` chain of transformDocuments, in the order of the source
transformChain ==
    <<"transformDocuments", "entityToObject", "afterRetrieveTransformID", "encodeID",
      "populateDocs", "filterFields", "excludeFields", "return">>

\* entityChanged: clearCache, then the schema's entity<Type> hook
entityChangedChain == <<"clearCache", "entityChanged">>

\* the promise chain of each method, in the order of the source
Plan(method, form) ==
    CASE method = "transformDocuments" -> transformChain
      [] method = "_get" -> <<"getById">> \o transformChain
      [] method = "_update" ->
           <<"beforeEntityChange", "updateById">> \o transformChain \o entityChangedChain
      [] method = "_remove" ->
           <<"beforeEntityChange", "removeById">> \o transformChain \o entityChangedChain
      [] method = "_create" ->
           <<"beforeEntityChange", "validateEntity", "beforeSaveTransformID", "insert">>
           \o transformChain \o entityChangedChain
      [] method = "_insert" /\ form = "entity" ->
           <<"beforeEntityChange", "validateEntity", "beforeSaveTransformID", "insert">>
           \o transformChain \o entityChangedChain
      [] method = "_insert" /\ form = "entities" ->
           <<"beforeEntityChange", "validateEntity", "beforeEntityChange",
             "beforeSaveTransformID", "insertMany">>
           \o transformChain \o entityChangedChain
      [] OTHER -> <<"reject">> \o transformChain \o entityChangedChain

\* the type beforeEntityChange and entityChanged are called with
BeforeType(method) ==
    CASE method = "_update" -> "Update" [] method = "_remove" -> "Remove" [] OTHER -> "Create"

ChangedType(method) ==
    CASE method = "_update" -> "Updated" [] method = "_remove" -> "Removed" [] OTHER -> "Created"

NoRequest == [fields |-> FALSE, populate |-> FALSE, excludeFields |-> FALSE]

\* a method called: nothing of its chain has run yet
Running(method, form, ctx, params, ids, array, entities, docsIn) ==
    [docs |-> docsIn, outcome |-> "pending", method |-> method, form |-> form,
     params |-> params, ids |-> ids, array |-> array, ctx |-> ctx, entities |-> entities,
     plan |-> Plan(method, form), input |-> docsIn, isDoc |-> FALSE, error |-> NoError]

\* the step of the chain that runs next
At(step) == running.plan # <<>> /\ Head(running.plan) = step

\* the step's `.then` handler returned: the next one runs, or the promise resolves
Then(r) ==
    [r EXCEPT !.plan = Tail(r.plan),
              !.outcome = IF Len(r.plan) = 1 THEN "resolved" ELSE "pending"]

\* the step rejected: no later `.then` handler of the chain runs
Reject(r, err) == [r EXCEPT !.plan = <<>>, !.outcome = "rejected", !.error = err]

Logged(e, k) == [key |-> k, e |-> e]

\* one event per element, in the order of the array
LogEach(e, keys) == [i \in 1..Len(keys) |-> Logged(e, keys[i])]

\* no method called yet
NoMethod == [Running("", "", FALSE, NoRequest, <<>>, FALSE, <<>>, NullDoc) EXCEPT !.plan = <<>>]

Free(r) == r.plan = <<>>

OutsideMethods == <<regVars, popVars, fldVars, schema, startedPromise, connects, paging>>

Begin(r) ==
    /\ Free(running)
    /\ running' = r
    /\ trace' = <<>>
    /\ UNCHANGED store
    /\ UNCHANGED OutsideMethods

TransformCall(ctx, params, docsIn) ==
    /\ docsIn.array \/ Len(docsIn.keys) <= 1
    /\ Begin(Running("transformDocuments", "", ctx, params, <<>>, FALSE, <<>>, docsIn))

\* _get with one identity value, or with an array of them
GetCall(ids, array, ctx, params) ==
    /\ array \/ Len(ids) = 1
    /\ Begin(Running("_get", "", ctx, params, ids, array, <<>>, NullDoc))

UpdateCall(id) ==
    /\ id \in Ids
    /\ Begin(Running("_update", "", TRUE, NoRequest, <<id>>, FALSE, <<>>, NullDoc))

RemoveCall(id) ==
    /\ id \in Ids
    /\ Begin(Running("_remove", "", TRUE, NoRequest, <<id>>, FALSE, <<>>, NullDoc))

\* the entities of a create call are numbered in the order given
CreateCall ==
    /\ store # Ids
    /\ Begin(Running("_create", "", TRUE, NoRequest, <<>>, FALSE, <<1>>, NullDoc))

InsertCall(form, n) ==
    /\ n <= Cardinality(Ids \ store)
    /\ form = "entity" => n = 1
    /\ form = "none" => n = 0
    /\ Begin(Running("_insert", form, TRUE, NoRequest, <<>>, form = "entities",
                     [i \in 1..n |-> i], NullDoc))

\* _insert with neither entity nor entities
RejectInvalid ==
    /\ At("reject")
    /\ running' = Reject(running, InvalidRequest)
    /\ UNCHANGED <<store, trace>>
    /\ UNCHANGED OutsideMethods

\* beforeEntityChange(type, entity, ctx), once for each entity of the call
BeforeEntityChange ==
    /\ At("beforeEntityChange")
    /\ running' = Then(running)
    /\ trace' = IF schema.hooks
                THEN trace \o LogEach("beforeEntity" \o BeforeType(running.method),
                                      IF running.entities = <<>> THEN running.ids
                                      ELSE running.entities)
                ELSE trace
    /\ UNCHANGED store
    /\ UNCHANGED OutsideMethods

\* validateEntity: without a validator the entity passes; with one it is
\* called for every entity and any rejection rejects the chain
ValidateEntity ==
    /\ At("validateEntity")
    /\ IF ~schema.validator
       THEN running' = Then(running) /\ UNCHANGED trace
       ELSE /\ trace' = trace \o LogEach("entityValidator", running.entities)
            /\ \E valid \in BOOLEAN :
                 running' = IF valid \/ running.entities = <<>> THEN Then(running)
                            ELSE Reject(running, ValidationError)
    /\ UNCHANGED store
    /\ UNCHANGED OutsideMethods

BeforeSave ==
    /\ At("beforeSaveTransformID")
    /\ running' = Then(running)
    /\ UNCHANGED <<store, trace>>
    /\ UNCHANGED OutsideMethods

\* the identity values the storage gives n new records
NewKeys(n) == {keys \in [1..n -> Ids \ store] : \A i, j \in 1..n : i # j => keys[i] # keys[j]}

\* adapter.insert(entity): the stored record
Insert ==
    /\ At("insert")
    /\ \E keys \in NewKeys(1) :
         /\ store' = store \cup {keys[1]}
         /\ running' = Then([running EXCEPT !.docs = OneDoc(keys[1])])
         /\ trace' = Append(trace, Logged("insert", 1))
    /\ UNCHANGED OutsideMethods

\* adapter.insertMany(entities): the stored records, in the order given
InsertMany ==
    /\ At("insertMany")
    /\ \E keys \in NewKeys(Len(running.entities)) :
         /\ store' = store \cup {keys[i] : i \in 1..Len(keys)}
         /\ running' = Then([running EXCEPT !.docs = Docs(keys)])
         /\ trace' = trace \o LogEach("insert", running.entities)
    /\ UNCHANGED OutsideMethods

\* the memory adapter's findById: the record, or null
findById(id) == IF id \in store THEN OneDoc(id) ELSE NullDoc

\* the records of a query, in the order the storage keeps them
Stored(S) == CHOOSE keys \in [1..Cardinality(S) -> S] : \A i, j \in 1..Cardinality(S) : i < j => keys[i] < keys[j]

\* the memory adapter's findByIds: the stored records whose id is in the list
findByIds(ids) == Docs(Stored({ids[i] : i \in 1..Len(ids)} \cap store))

\* the memory adapter's updateById: the updated record, or nothing
updateById(id) == findById(id)

\* the memory adapter's removeById: how many records were removed
removeById(id) == Number(IF id \in store THEN 1 ELSE 0)

\* getById and _get's check of what it gave
GetById ==
    /\ At("getById")
    /\ LET doc == IF running.array
                  THEN findByIds([i \in 1..Len(running.ids) |-> decodeID(running.ids[i])])
                  ELSE findById(decodeID(running.ids[1]))
       IN running' = IF Not(doc) THEN Reject(running, EntityNotFoundError(running.ids))
                     ELSE Then([running EXCEPT !.docs = doc, !.input = doc])
    /\ UNCHANGED <<store, trace>>
    /\ UNCHANGED OutsideMethods

\* adapter.updateById and _update's check of what it gave
UpdateById ==
    /\ At("updateById")
    /\ LET id == decodeID(running.ids[1])
           doc == updateById(id)
       IN running' = IF Not(doc) THEN Reject(running, EntityNotFoundError(<<id>>))
                     ELSE Then([running EXCEPT !.docs = doc, !.input = doc])
    /\ UNCHANGED <<store, trace>>
    /\ UNCHANGED OutsideMethods

\* adapter.removeById and _remove's check of what it gave
RemoveById ==
    /\ At("removeById")
    /\ LET id == decodeID(running.ids[1])
           doc == removeById(id)
       IN /\ running' = IF Not(doc) THEN Reject(running, EntityNotFoundError(running.ids))
                        ELSE Then([running EXCEPT !.docs = doc, !.input = doc])
          /\ store' = store \ {id}
    /\ UNCHANGED trace
    /\ UNCHANGED OutsideMethods

\* transformDocuments before its chain: one record becomes an array of one, and
\* what is neither an array nor an object is returned as it is
TransformEnter ==
    /\ At("transformDocuments")
    /\ LET d == running.docs
           skipped == SubSeq(running.plan, Len(transformChain) + 1, Len(running.plan))
       IN running' =
            IF d.array THEN Then([running EXCEPT !.input = d, !.isDoc = FALSE])
            ELSE IF d.object
                 THEN Then([running EXCEPT !.input = d, !.isDoc = TRUE, !.docs = Docs(d.keys)])
                 ELSE [running EXCEPT !.input = d, !.plan = skipped,
                                      !.outcome = IF skipped = <<>> THEN "resolved" ELSE "pending"]
    /\ UNCHANGED <<store, trace>>
    /\ UNCHANGED OutsideMethods

\* docs.map(f): f applied to every element, the array as long as before
map(docsNow) == Docs([i \in 1..Len(docsNow.keys) |-> docsNow.keys[i]])

\* whether a stage of the chain applies its function, or hands the array on
Applies(stage, r) ==
    CASE stage = "populateDocs" -> r.ctx /\ r.params.populate
      [] stage = "excludeFields" -> r.ctx /\ r.params.excludeFields
      [] OTHER -> TRUE

\* a stage of transformDocuments between its entry and its return
TransformStage(stage) ==
    /\ stage \in {"entityToObject", "afterRetrieveTransformID", "encodeID",
                  "populateDocs", "filterFields", "excludeFields"}
    /\ At(stage)
    /\ running' = Then([running EXCEPT !.docs = IF Applies(stage, running) THEN map(@) ELSE @])
    /\ trace' = IF Applies(stage, running) THEN Append(trace, Logged(stage, Len(running.docs.keys)))
                ELSE trace
    /\ UNCHANGED store
    /\ UNCHANGED OutsideMethods

\* `isDoc ? json[0] : json`
Returned0(isDoc, json) == IF isDoc THEN OneDoc(json.keys[1]) ELSE json

TransformReturn ==
    /\ At("return")
    /\ running' = Then([running EXCEPT !.docs = Returned0(running.isDoc, @)])
    /\ UNCHANGED <<store, trace>>
    /\ UNCHANGED OutsideMethods

\* entityChanged: this.clearCache()
ClearCache ==
    /\ At("clearCache")
    /\ running' = Then(running)
    /\ trace' = Append(trace, Logged("clearCache", 0))
    /\ UNCHANGED store
    /\ UNCHANGED OutsideMethods

\* entityChanged: the schema's entityCreated, entityUpdated or entityRemoved
EntityChanged ==
    /\ At("entityChanged")
    /\ running' = Then(running)
    /\ trace' = IF schema.hooks
                THEN Append(trace, Logged("entity" \o ChangedType(running.method), 0))
                ELSE trace
    /\ UNCHANGED store
    /\ UNCHANGED OutsideMethods

\* the requests of a transformDocuments or _get call
Requests ==
    {NoRequest, [NoRequest EXCEPT !.populate = TRUE],
     [fields |-> TRUE, populate |-> TRUE, excludeFields |-> TRUE]}

\* lists of up to MaxIds identity values, repeats included
IdLists == UNION {[1..n -> Ids] : n \in 0..MaxIds}

DocsChoices == {NullDoc, Number(1)} \cup {OneDoc(k) : k \in Ids} \cup {Docs(keys) : keys \in IdLists}

InitMethods ==
    /\ InitWith(NoName) /\ PopIdle /\ FldIdle
    /\ schema \in [mode : {""}, adapter : {TRUE}, hooks : BOOLEAN, validator : BOOLEAN]
    /\ startedPromise = "idle"
    /\ connects = <<>>
    /\ paging = <<>>
    /\ store \in SUBSET Ids
    /\ running = NoMethod
    /\ trace = <<>>

NextMethods ==
    \/ \E ctx \in BOOLEAN, params \in Requests, docsIn \in DocsChoices :
         TransformCall(ctx, params, docsIn)
    \/ \E id \in Ids, params \in Requests : GetCall(<<id>>, FALSE, TRUE, params)
    \/ \E ids \in IdLists : GetCall(ids, TRUE, TRUE, NoRequest)
    \/ \E id \in Ids : UpdateCall(id)
    \/ \E id \in Ids : RemoveCall(id)
    \/ CreateCall
    \/ \E form \in {"entity", "entities", "none"}, n \in 0..MaxIds : InsertCall(form, n)
    \/ RejectInvalid
    \/ BeforeEntityChange
    \/ ValidateEntity
    \/ BeforeSave
    \/ Insert
    \/ InsertMany
    \/ GetById
    \/ UpdateById
    \/ RemoveById
    \/ TransformEnter
    \/ \E stage \in {transformChain[i] : i \in 1..Len(transformChain)} : TransformStage(stage)
    \/ TransformReturn
    \/ ClearCache
    \/ EntityChanged

\* ------------------------------------------------------------ specification
\* close(names): arrays of up to as many names as there are, repeats included
ArrayArgs == UNION {[1..k -> RegNames] : k \in 1..Cardinality(RegNames)}

NextReg ==
    \/ \E a \in ArgNames : Get(1, a)
    \/ \E a \in ArgNames : Remove(1, a)
    \/ \E a \in ArgNames : Create(1, a)
    \/ \E c \in 1..Len(conns) : Initialize(c)
    \/ \E a \in ArgNames : CloseCall(1, a)
    \/ \E names \in ArrayArgs : CloseArrayCall(1, names)
    \/ \E o \in BagToSet(ops) : DestroySettle(o)
    \/ \E o \in BagToSet(ops) : CloseResume(o)

\* the registry used on its own: one ConnectionManager and its callers
InitReg == InitWith(NoName) /\ PopIdle /\ FldIdle /\ SvcIdle

SpecReg == InitReg /\ [][NextReg]_vars

NextAdapter ==
    \/ AdapterConnectCall
    \/ \E o \in BagToSet(ops) : AdapterConnectInitialize(o)
    \/ \E o \in BagToSet(ops) : AdapterConnectSettle(o)
    \/ AdapterDisconnect
    \/ \E o \in BagToSet(ops) : DestroySettle(o)
    \/ \E o \in BagToSet(ops) : CloseResume(o)

\* the adapter, which constructs a ConnectionManager of its own at every connect
InitAdapter == \E n \in {NoName, "A"} : InitWith(n) /\ PopIdle /\ FldIdle /\ SvcIdle

SpecAdapter == InitAdapter /\ [][NextAdapter]_vars

\* populateDocs called once, with no registry activity
InitPop ==
    /\ populates \in [author : AuthorRules \cup {Absent}, reviewer : ReviewerRules]
    /\ populateFields \in RequestChoices
    /\ docs \in DocLists
    /\ single \in BOOLEAN
    /\ single => Len(docs) = 1
    /\ sent = <<>>
    /\ promise = "idle"
    /\ InitWith(NoName)
    /\ FldIdle
    /\ SvcIdle

SpecPop == InitPop /\ [][NextPop]_vars

\* the field and id functions, applied to documents and lists of every shape
SpecFields == InitFields /\ [][NextFields]_vars

\* the list action over one table, page after page
SpecList == InitList /\ [][NextList]_vars

\* the service's lifecycle: started, connect, and the adapter's connect under them
SpecService == InitService /\ [][NextService]_vars

\* the entity methods and transformDocuments, one `.then` handler at a time
SpecMethods == InitMethods /\ [][NextMethods]_vars

\* ------------------------------------------------------- registry: claims
InitializedUnder(n) == {c \in 1..Len(conns) : conns[c].name = n /\ conns[c].isInitialized}

\* C1 (as claimed): for every logical name at most one connection created under
\* that name is in the Initialized state. destroy clears isInitialized, so a
\* destroyed connection is counted only when it was initialized anew.
C1_AtMostOneInitializedPerName ==
    \A n \in RegNames : Cardinality(InitializedUnder(n)) <= 1

\* the call the last step made, read in the state it was made in
CallOn(op) == ev'.op = op

WasActive(m, n) == Has(m, n) /\ conns[managers[m][n]].isInitialized

\* C2: create for a name whose registered connection is Initialized is rejected
\* with AlreadyHasActiveConnection and leaves the registry and the connections
\* as they were.
C2_CreateOnActiveRejected ==
    [][(CallOn("create") /\ WasActive(ev'.mgr, ev'.name))
         => /\ ev'.outcome = "AlreadyHasActiveConnection"
            /\ ev'.how = "rejected"
            /\ managers' = managers
            /\ conns' = conns]_vars

C2_Witness == ev.op = "create" /\ ev.outcome = "AlreadyHasActiveConnection"

\* C3: create for a name that is unregistered, or registered and not
\* Initialized, succeeds: a new connection, not Initialized, is stored under the
\* name (in place of the previous entry) and is what get(name) then returns;
\* every other entry and connection is untouched.
C3_CreateStoresNewConnection ==
    [][(CallOn("create") /\ ~WasActive(ev'.mgr, ev'.name))
         => /\ ev'.outcome = "ok"
            /\ ev'.how = "resolved"
            /\ ev'.conn = Len(conns) + 1
            /\ conns' = Append(conns, [name |-> ev'.name, isInitialized |-> FALSE])
            /\ managers'[ev'.mgr][ev'.name] = ev'.conn
            /\ \A n \in RegNames \ {ev'.name} : managers'[ev'.mgr][n] = managers[ev'.mgr][n]]_vars

\* a create that replaced a registered, uninitialized connection of the same name
C3_Witness ==
    /\ ev.op = "create"
    /\ ev.outcome = "ok"
    /\ ev.conn > 1
    /\ \E c \in 1..(ev.conn - 1) : conns[c].name = ev.name /\ ~conns[c].isInitialized
    /\ managers[ev.mgr][ev.name] = ev.conn

\* C4: get and remove throw ConnectionNotFound exactly when the name is not
\* registered, and then change nothing; get returns the registered connection;
\* remove deletes that one entry and leaves every connection's state alone.
C4_GetRemoveNotFound ==
    [][(CallOn("get") \/ CallOn("remove"))
         => /\ (ev'.outcome = "ConnectionNotFound") <=> ~Has(ev'.mgr, ev'.name)
            /\ ev'.outcome = "ConnectionNotFound" => (ev'.how = "throw" /\ managers' = managers)
            /\ ev'.outcome # "ConnectionNotFound" => (ev'.outcome = "ok" /\ ev'.how = "return")
            /\ conns' = conns
            /\ ops' = ops
            /\ CallOn("get") => managers' = managers
            /\ (CallOn("get") /\ Has(ev'.mgr, ev'.name)) => ev'.conn = managers[ev'.mgr][ev'.name]
            /\ (CallOn("remove") /\ Has(ev'.mgr, ev'.name))
                 => managers' = [managers EXCEPT ![ev'.mgr][ev'.name] = 0]]_vars

\* remove took an Initialized connection out of the registry, another entry stays
C4_Witness ==
    /\ ev.op = "remove"
    /\ ev.outcome = "ok"
    /\ conns[ev.conn].isInitialized
    /\ ~Has(ev.mgr, ev.name)
    /\ \E n \in RegNames : Has(ev.mgr, n)

\* the suspended close that the last step resumed
Resumed(o) == o \in BagToSet(ops) /\ ops' = ops (-) One(o) /\ o.kind = "close"

\* the per-name rule of a close: true when the destroy succeeded and the entry
\* was there to remove (it is gone afterwards), false when the destroy failed,
\* and never an error
CloseRule ==
    CallOn("closeDone") =>
        \E o \in BagToSet(ops) :
            /\ Resumed(o)
            /\ o.pc \in {"ok", "fail"}
            /\ o.name = ev'.name /\ o.conn = ev'.conn
            /\ ev'.how = "resolved"
            /\ ev'.outcome \in {"true", "false"}
            /\ o.pc = "fail" => (ev'.outcome = "false" /\ managers' = managers)
            /\ (o.pc = "ok" /\ Has(o.mgr, o.name))
                 => (ev'.outcome = "true" /\ managers' = [managers EXCEPT ![o.mgr][o.name] = 0])
            /\ ev'.outcome = "true" => (o.pc = "ok" /\ managers'[o.mgr][o.name] = 0)
            /\ conns' = conns

C6_CloseMissingThrowsAtCall ==
    (ev.op = "close" /\ ev.outcome = "ConnectionNotFound") => ev.how = "throw"

\* C6 (amended): close(name) of an unregistered name returns a promise rejected
\* with ConnectionNotFound (never a false result, never a throw at the call),
\* calls no destroy and changes nothing.
C6_CloseMissingRejects ==
    [][(CallOn("close") /\ ~Has(ev'.mgr, ev'.name))
         => /\ ev'.outcome = "ConnectionNotFound"
            /\ ev'.how = "rejected"
            /\ ops' = ops
            /\ managers' = managers
            /\ conns' = conns]_vars

C6_Witness == ev.op = "close" /\ ev.outcome = "ConnectionNotFound" /\ ev.how = "rejected"

NoDuplicates(list) == \A i, j \in 1..Len(list) : list[i] = list[j] => i = j

\* C8 (as claimed): the id list of every remote call holds no duplicate and no
\* falsy entry, whatever the key fields of the documents hold.
C8_IdListCleanOfFalsy ==
    \A i \in 1..Len(sent) :
        sent[i].kind = "action"
            => /\ NoDuplicates(sent[i].id)
               /\ \A j \in 1..Len(sent[i].id) : Truthy(sent[i].id[j])

\* the step in which populateDocs is called
Called == promise = "idle" /\ promise' # "idle"

Configured(name) == populates[name].form # "absent"

Requested(name) == \E i \in 1..Len(populateFields) : populateFields[i][1] = name

\* the requested paths under a relation, the relation's own name cut off
Residual(name) ==
    LET under == SelectSeq(populateFields, LAMBDA p : Len(p) > 1 /\ p[1] = name)
    IN [i \in 1..Len(under) |-> SubSeq(under[i], 2, Len(under[i]))]

CallsOf(name, log) == {i \in 1..Len(log) : log[i].rel = name}

KeyField(name) == IF populates[name].field = "" THEN name ELSE populates[name].field

ActionInvoked(name) ==
    /\ Configured(name)
    /\ populates[name].form \in {"string", "object"}
    /\ Requested(name)
    /\ idList(docs, KeyField(name)) # <<>>

\* C9 (as claimed): an action relation with a requested path and a non-empty id
\* list is called exactly once, with id = idList, mapping = true and populate =
\* the requested paths under the relation with the prefix cut off, the key
\* being absent when that list is empty; otherwise it is not called.
C9_OneCallResidualOnly ==
    [][Called =>
         \A name \in RelNames :
             IF ActionInvoked(name)
             THEN /\ Cardinality(CallsOf(name, sent')) = 1
                  /\ \A i \in CallsOf(name, sent') :
                       /\ sent'[i].id = idList(docs, KeyField(name))
                       /\ sent'[i].mapping
                       /\ sent'[i].populate = Residual(name)
                       /\ sent'[i].hasPopulate <=> Residual(name) # <<>>
             ELSE \A i \in CallsOf(name, sent') : sent'[i].kind # "action"]_vars

\* the populate list as the code builds it: the residual paths, then the rule's
\* own populate list, unless the rule's static params set populate themselves
SentPopulate(name) ==
    IF "populate" \in populates[name].params.keys
    THEN populates[name].params.populate
    ELSE Residual(name) \o populates[name].populate

\* C9 (amended): such a relation is called exactly once for the whole document
\* set, and not at all when its id list is empty, with id = idList, mapping =
\* true and populate = the residual paths followed by the rule's own populate
\* list, overlaid with the rule's static params; the populate key is absent
\* when the resulting list is empty. No call is added or changed afterwards.
C9_OneCallPerRelation ==
    [][/\ Called =>
            \A name \in RelNames :
                IF ActionInvoked(name)
                THEN /\ Cardinality(CallsOf(name, sent')) = 1
                     /\ \A i \in CallsOf(name, sent') :
                          /\ sent'[i].kind = "action"
                          /\ sent'[i].action = populates[name].action
                          /\ sent'[i].id = idList(docs, KeyField(name))
                          /\ sent'[i].mapping
                          /\ sent'[i].populate = SentPopulate(name)
                          /\ sent'[i].hasPopulate <=> SentPopulate(name) # <<>>
                          /\ sent'[i].extra = populates[name].params.keys \ {"populate"}
                ELSE \A i \in CallsOf(name, sent') : sent'[i].kind # "action"
       /\ ~Called =>
            /\ Len(sent') = Len(sent)
            /\ \A i \in 1..Len(sent) :
                 [sent'[i] EXCEPT !.state = "", !.answer = {}]
                   = [sent[i] EXCEPT !.state = "", !.answer = {}]]_vars

\* {author: "users.get"} asked for ["author", "author.profile"]: one call to
\* users.get with populate = ["profile"]
C9_Witness ==
    /\ populates.author = StringRule("users.get")
    /\ populateFields = <<Path(<<"author">>), Path(<<"author", "profile">>)>>
    /\ Len(docs) = MaxDocs
    /\ Cardinality(CallsOf("author", sent)) = 1
    /\ \A i \in CallsOf("author", sent) :
         /\ sent[i].action = "users.get"
         /\ sent[i].hasPopulate
         /\ sent[i].populate = <<Path(<<"profile">>)>>

\* the remote call whose response the step merges
Responded(i) ==
    /\ i \in 1..Len(sent)
    /\ sent[i].kind = "action"
    /\ sent[i].state = "pending"
    /\ sent'[i].state = "done"

RECURSIVE MappedInOrder(_, _)
\* the sub-documents of the keys a mapping holds, in the order of the keys; an
\* entry that is no key counts as the key it prints as, if any
MappedInOrder(keys, mapping) ==
    IF keys = <<>> THEN <<>>
    ELSE (IF PropertyKey(Head(keys)) \in mapping
          THEN <<SubDoc(PropertyKey(Head(keys)))>> ELSE <<>>)
         \o MappedInOrder(Tail(keys), mapping)

\* C10 (as claimed): every document whose key value at the rule's field is an
\* array has that field replaced by the mapped sub-documents, in key order,
\* also when the rule's field is not the relation's name.
C10_KeyFieldReplaced ==
    [][\A i \in 1..Len(sent) :
         Responded(i) =>
            \A d \in 1..Len(docs) :
                LET field == KeyField(sent[i].rel) IN
                docs[d][field].kind = "array"
                    => docs'[d][field] =
                         Arr(MappedInOrder(docs[d][field].items, sent'[i].answer))]_vars

\* C10 (amended): every such document has the field named after the relation
\* set to the mapped sub-documents, in key order, keys absent from the mapping
\* dropped; that is the key field only when the rule's field is the relation's
\* name, and otherwise the key field (like every other field) stays as it was.
C10_RelationFieldReplaced ==
    [][\A i \in 1..Len(sent) :
         Responded(i) =>
            /\ Len(docs') = Len(docs)
            /\ \A d \in 1..Len(docs) :
                LET name == sent[i].rel
                    field == KeyField(sent[i].rel)
                IN docs[d][field].kind = "array"
                     => /\ docs'[d][name] =
                             Arr(MappedInOrder(docs[d][field].items, sent'[i].answer))
                        /\ \A f \in DocFields \ {name} : docs'[d][f] = docs[d][f]]_vars

\* authorId = [1, 2, 2, 3] answered with a mapping of 1 and 3: author becomes
\* the sub-documents of 1 and 3, authorId keeps the keys
C10_Witness ==
    \E i \in 1..Len(sent), d \in 1..Len(docs) :
        /\ sent[i].rel = "author"
        /\ sent[i].state = "done"
        /\ sent[i].answer = {1, 3}
        /\ populates.author.field = "authorId"
        /\ docs[d].authorId = Arr(<<Key(1), Key(2), Key(2), Key(3)>>)
        /\ docs[d].author = Arr(<<SubDoc(1), SubDoc(3)>>)

\* C11 (as claimed): a document whose key value is a single key has the field
\* replaced by the sub-document the mapping holds for the key, and keeps the key
\* when the mapping holds none. Stated for the rules whose key field is the
\* relation's own field, the one field the response is written to.
C11_SingleKeyResolvedOrKept ==
    [][\A i \in 1..Len(sent) :
         (Responded(i) /\ KeyField(sent[i].rel) = sent[i].rel) =>
            \A d \in 1..Len(docs) :
                LET field == sent[i].rel
                    id == docs[d][sent[i].rel]
                IN id.kind = "key"
                     => docs'[d][field] = IF id.n \in sent'[i].answer
                                          THEN SubDoc(id.n) ELSE id]_vars

\* the relations a call resolves: configured, with a requested path under them
Resolved == {name \in RelNames : Configured(name) /\ Requested(name)}

\* C12 (as claimed): a single document stays single, a list keeps its length
\* and order, no field changes other than the key fields of the requested
\* relations, and nothing changes when populateDocs returns at once.
C12_OnlyKeyFieldsChange ==
    [][/\ single' = single
       /\ Len(docs') = Len(docs)
       /\ \A d \in 1..Len(docs) :
            \A f \in DocFields \ {KeyField(name) : name \in Resolved} :
                docs'[d][f] = docs[d][f]
       /\ ReturnsAtOnce => docs' = docs]_vars

\* C12 (amended): a single document stays single, a list keeps its length and
\* order, no field changes other than the fields named after the requested
\* relations, and nothing changes when populateDocs returns at once.
C12_OnlyRelationFieldsChange ==
    [][/\ single' = single
       /\ Len(docs') = Len(docs)
       /\ \A d \in 1..Len(docs) :
            \A f \in DocFields \ Resolved : docs'[d][f] = docs[d][f]
       /\ ReturnsAtOnce => docs' = docs]_vars

\* two documents populated on both relations, author from the keys of authorId:
\* the call has resolved, both relation fields are written, authorId is as it was
C12_Witness ==
    /\ promise = "resolved"
    /\ ~single
    /\ Len(docs) = MaxDocs
    /\ Resolved = RelNames
    /\ populates.author.field = "authorId"
    /\ \A i \in 1..Len(sent) : sent[i].state = "done"
    /\ \E d \in 1..Len(docs) :
         /\ docs[d].authorId = Arr(<<Key(1), Key(2), Key(2), Key(3)>>)
         /\ docs[d].author = Arr(<<SubDoc(1), SubDoc(2), SubDoc(2), SubDoc(3)>>)
         /\ docs[d].reviewer.kind = "doc"

\* the mappings a pending call may complete with
AnswersOf(i) ==
    IF sent[i].kind = "action" THEN Answers(sent[i].id) ELSE {KeysOf(sent[i].id)}

\* the documents after the completions of call i, then of call j, were merged
MergedInOrder(i, mi, j, mj) ==
    resultTransform(resultTransform(docs, sent[i].rel, mi), sent[j].rel, mj)

\* C13 (as claimed): whenever two relations of a call are both outstanding,
\* the documents end up the same whichever of the two completes first, for
\* every pair of answers, also when one rule reads a field the other writes.
C13_CompletionOrderIrrelevant ==
    \A i, j \in 1..Len(sent) :
        (i # j /\ sent[i].state = "pending" /\ sent[j].state = "pending")
            => \A mi \in AnswersOf(i), mj \in AnswersOf(j) :
                   MergedInOrder(i, mi, j, mj) = MergedInOrder(j, mj, i, mi)

\* the calls whose error the populate promise was rejected with
Raisers(log) == {i \in 1..Len(log) : log[i].state = "failed"}

Fails(i) == sent[i].state = "pending" /\ sent'[i].state \in {"failed", "failedLate"}

\* C14: when a relation's call or handler fails, the populate promise is
\* rejected, with the error of that call when it was still waiting; once
\* rejected it stays rejected with the same error while the other relations
\* complete, it never resolves, and a failed call is not issued again.
C14_FailureRejectsWhole ==
    [][/\ Len(sent') = Len(sent) \/ Called
       /\ \A i \in 1..Len(sent) :
            /\ Fails(i) =>
                 /\ promise' = "rejected"
                 /\ promise = "waiting" => Raisers(sent') = {i}
            /\ sent[i].state \in {"failed", "failedLate"} => sent'[i] = sent[i]
       /\ promise = "rejected" =>
            /\ promise' = "rejected"
            /\ Raisers(sent') = Raisers(sent)]_vars

\* one relation failed, the other completed after it: the promise is rejected
C14_Witness ==
    /\ promise = "rejected"
    /\ \E i, j \in 1..Len(sent) :
         /\ sent[i].state = "failed"
         /\ sent[j].state = "done"
         /\ sent[j].kind = "action"
         /\ \E d \in 1..Len(docs) : docs[d][sent[j].rel].kind = "doc"

\* ---------------------------------------- field lists and documents: claims
\* the call the last step made
Did(op) == did'.op = op

Allowed(p) == InList(p, settingsFields.items)

AncestorAllowed(p) ==
    \E k \in 1..(Len(p) - 1) : InList(SubSeq(p, 1, k), settingsFields.items)

\* C15: with a non-empty allow-list authorizeFields returns only requested
\* paths that are allowed or have an allowed ancestor, and allowed paths below a
\* requested path; it keeps every requested path of the first two kinds and
\* drops the requested paths of no kind ([a, b.c] under [a, b] gives [a, b.c]);
\* with no allow-list it returns the requested list as it is.
C15_AuthorizeFields ==
    [][Did("authorizeFields") =>
         IF settingsFields.array /\ settingsFields.items # <<>>
         THEN /\ authorized'.array
              /\ \A i \in 1..Len(authorized'.items) :
                    LET p == authorized'.items[i] IN
                    \/ InList(p, fields.items) /\ (Allowed(p) \/ AncestorAllowed(p))
                    \/ Allowed(p) /\ \E j \in 1..Len(fields.items) :
                                          IsProperPrefix(fields.items[j], p)
              /\ \A j \in 1..Len(fields.items) :
                    LET r == fields.items[j] IN
                    IF Allowed(r) \/ AncestorAllowed(r)
                    THEN InList(r, authorized'.items)
                    ELSE ~InList(r, authorized'.items)
              /\ (/\ fields = List(<<P("a"), PP("b", "c")>>)
                  /\ settingsFields = List(<<P("a"), P("b")>>))
                    => authorized' = List(<<P("a"), PP("b", "c")>>)
         ELSE authorized' = fields]_vars

\* [a, b.c] asked under the allow-list [a, b]: [a, b.c] comes back
C15_Witness ==
    /\ did.op = "authorizeFields"
    /\ fields = List(<<P("a"), PP("b", "c")>>)
    /\ settingsFields = List(<<P("a"), P("b")>>)
    /\ authorized = List(<<P("a"), PP("b", "c")>>)

C17_FilterExactlyDefined ==
    [][(Did("filterFields") /\ fields.array) =>
         /\ \A j \in 1..Len(fields.items) :
               LET p == fields.items[j] IN
               IF getPath(entity, p).def
               THEN getPath(result', p) = getPath(entity, p)
               ELSE ~getPath(result', p).def /\ Below(result', p) = {}
         /\ \A q \in DOMAIN result' :
               /\ q \in DOMAIN entity
               /\ result'[q] = entity[q]
               /\ \E j \in 1..Len(fields.items) :
                     IsPrefix(fields.items[j], q) /\ getPath(entity, fields.items[j]).def]_vars

\* {a: 1, b: {c: 2, d: 3}} filtered by [b.c, z]: {b: {c: 2}}, and no z
C17_Witness ==
    /\ did.op = "filterFields"
    /\ fields = List(<<PP("b", "c"), P("z")>>)
    /\ entity = DocOf({<<P("a"), "1">>, <<PP("b", "c"), "2">>, <<PP("b", "d"), "3">>})
    /\ result = DocOf({<<PP("b", "c"), "2">>})

\* C18 (as claimed): filterFields returns the document as it is when F is no
\* array, and also when F is the empty list.
C18_UnchangedUnlessNonEmptyList ==
    [][(Did("filterFields") /\ (~fields.array \/ fields.items = <<>>))
         => result' = entity]_vars

\* C18 (amended): filterFields returns the document as it is when F is no array
\* (null, undefined); when F is the empty list it returns an empty document.
C18_UnchangedOnlyWithoutList ==
    [][Did("filterFields") =>
         /\ ~fields.array => result' = entity
         /\ (fields.array /\ fields.items = <<>>) => result' = EmptyDoc]_vars

\* {a: 1, b: {c: 2, d: 3}} filtered by []: {}
C18_Witness ==
    /\ did.op = "filterFields"
    /\ fields = List(<<>>)
    /\ entity = DocOf({<<P("a"), "1">>, <<PP("b", "c"), "2">>, <<PP("b", "d"), "3">>})
    /\ result = EmptyDoc

Exists(doc, p) == p \in DOMAIN doc \/ Below(doc, p) # {}

\* C19: excluding leaves the document it is given as it was; what it returns
\* has lost the leaves at and below the excluded paths and no other; excluding
\* paths that do not exist returns an equal document; excluding the same paths
\* from the result once more returns an equal document.
C19_ExcludeIdempotent ==
    [][Did("excludeFields") =>
         LET d == did'.arg
             excluded(q) == \E j \in 1..Len(fields.items) : IsPrefix(fields.items[j], q)
         IN /\ did'.from = "entity" => entity' = entity
            /\ \A q \in DOMAIN d : ~excluded(q) => (q \in DOMAIN result' /\ result'[q] = d[q])
            /\ \A q \in DOMAIN result' : ~excluded(q)
            /\ (\A j \in 1..Len(fields.items) : ~Exists(d, fields.items[j])) => result' = d
            /\ (did.op = "excludeFields" /\ did'.from = "result") => result' = result]_vars

\* b.c excluded from {a: 1, b: {c: 2, d: 3}}, and once more from the result:
\* {a: 1, b: {d: 3}} both times
C19_Witness ==
    /\ did.op = "excludeFields"
    /\ did.from = "result"
    /\ did.arg = result
    /\ fields = List(<<PP("b", "c")>>)
    /\ entity = DocOf({<<P("a"), "1">>, <<PP("b", "c"), "2">>, <<PP("b", "d"), "3">>})
    /\ result = DocOf({<<P("a"), "1">>, <<PP("b", "d"), "3">>})

\* the fields of a document that are neither the id field nor the storage's _id
Unrelated(doc) == {q \in DOMAIN doc : q[1] \notin {"id", "_id"}}

NonNull(v) == v.def /\ (v.obj \/ v.leaf # "null")

\* C20: beforeSaveTransformID leaves the document it is given as it was;
\* afterRetrieveTransformID applied to what it returned, both with idField
\* "id", gives a document with the same value under "id" and the same
\* unrelated fields, when that value is not null; with idField "_id" both
\* return a document equal to the one they were given.
C20_IdRoundTrip ==
    [][/\ Did("beforeSaveTransformID") =>
            /\ entity' = entity
            /\ did'.idField = "_id" => result' = entity
       /\ Did("afterRetrieveTransformID") =>
            /\ did'.idField = "_id" => result' = result
            /\ (/\ did.op = "beforeSaveTransformID"
                /\ did.idField = "id"
                /\ did'.idField = "id"
                /\ NonNull(getPath(entity, P("id")))) =>
                 /\ getPath(result', P("id")) = getPath(entity, P("id"))
                 /\ Unrelated(result') = Unrelated(entity)
                 /\ \A q \in Unrelated(entity) : result'[q] = entity[q]]_vars

\* {id: 1, _id: 2, b: {c: 1}} saved as {_id: 1, b: {c: 1}} and read back as
\* {id: 1, b: {c: 1}}
C20_Witness ==
    /\ did.op = "afterRetrieveTransformID"
    /\ did.idField = "id"
    /\ did.arg = DocOf({<<P("_id"), "1">>, <<PP("b", "c"), "1">>})
    /\ entity = DocOf({<<P("id"), "1">>, <<P("_id"), "2">>, <<PP("b", "c"), "1">>})
    /\ result = DocOf({<<P("id"), "1">>, <<PP("b", "c"), "1">>})

\* ------------------------------------------- registry: concurrent closes
\* the closes in flight on a connection: each has had destroy called for it
ClosesOn(c, bag) ==
    LET on == {o \in BagToSet(bag) : o.kind = "close" /\ o.conn = c}
        RECURSIVE Sum(_)
        Sum(S) == IF S = {} THEN 0
                  ELSE LET o == CHOOSE x \in S : TRUE IN CopiesIn(o, bag) + Sum(S \ {o})
    IN Sum(on)

\* C25 (as claimed): however two closes of one registered name interleave, the
\* connection has destroy called for it by at most one of them, and every close
\* whose destroy succeeded yields true.
C25_ConcurrentCloseDestroysOnce ==
    [][/\ \A c \in 1..Len(conns') : ClosesOn(c, ops') <= 1
       /\ CallOn("closeDone") =>
            \A o \in BagToSet(ops) : (Resumed(o) /\ o.pc = "ok") => ev'.outcome = "true"]_vars

\* C26 (as claimed): a close that resumes while the name holds a connection
\* other than the one it destroyed leaves that connection registered.
C26_CloseKeepsNewerConnection ==
    [][CallOn("closeDone") =>
         \A o \in BagToSet(ops) :
            (/\ Resumed(o)
             /\ managers[o.mgr][o.name] # 0
             /\ managers[o.mgr][o.name] # o.conn)
                => managers'[o.mgr][o.name] = managers[o.mgr][o.name]]_vars

\* C27: a close whose destroy failed leaves the registry as it was and yields
\* false: the name keeps the connection it had, get returns it, and a close
\* called on the name afterwards calls destroy for that connection again.
C27_FailedDestroyKeepsEntry ==
    [][/\ CallOn("closeDone") =>
            \A o \in BagToSet(ops) :
               (Resumed(o) /\ o.pc = "fail") => (managers' = managers /\ ev'.outcome = "false")
       /\ (CallOn("get") /\ Has(ev'.mgr, ev'.name)) =>
            (ev'.outcome = "ok" /\ ev'.conn = managers[ev'.mgr][ev'.name])
       /\ (CallOn("close") /\ Has(ev'.mgr, ev'.name)) =>
            ClosesOn(managers[ev'.mgr][ev'.name], ops')
              = ClosesOn(managers[ev'.mgr][ev'.name], ops) + 1]_vars

\* a close of an initialized connection ended false after its destroy failed:
\* the connection is still initialized and still the one registered
C27_Witness ==
    /\ ev.op = "closeDone"
    /\ ev.outcome = "false"
    /\ managers[ev.mgr][ev.name] = ev.conn
    /\ conns[ev.conn].isInitialized
    /\ ClosesOn(ev.conn, ops) = 0

\* ----------------------------------------------- pipeline stages: claims
\* C22 (as claimed): a stage applied to its own output with the same parameters
\* returns an equal document: the rename from the storage form, the field
\* projection and the field exclusion.
C22_StagesIdempotent ==
    [][/\ (/\ did.op = "afterRetrieveTransformID"
           /\ Did("afterRetrieveTransformID")
           /\ did'.idField = did.idField) => result' = result
       /\ Did("filterFields") => filterFields(result', fields) = result'
       /\ (/\ did.op = "excludeFields"
           /\ Did("excludeFields")
           /\ did'.from = "result") => result' = result]_vars

\* ---------------------------------------------------------------- claim C29
\* how often the pages read so far returned row r
Returned(r) ==
    Cardinality({ki \in (1..Len(paging.got)) \X (1..MaxRows) :
                   /\ ki[2] <= Len(paging.got[ki[1]].res.rows)
                   /\ paging.got[ki[1]].res.rows[ki[2]] = r})

\* the least number of pages of the given size that hold `total` rows
Ceil(total, size) == CHOOSE n \in 0..total : n * size >= total /\ (n = 0 \/ (n - 1) * size < total)

\* every page 1..totalPages has been read
ReadAll == paging.got # <<>> /\ Len(paging.got) = paging.got[1].res.totalPages

\* C29: for every page read, offset = (page - 1) * pageSize, limit = pageSize,
\* the reported pageSize is at most a positive maxPageSize, totalPages is
\* ceil(total / pageSize); and once pages 1..totalPages are read every row of
\* the table has been returned exactly once.
C29_ListWindows ==
    paging # <<>> =>
        /\ \A k \in 1..Len(paging.got) :
              LET g == paging.got[k] IN
              /\ g.params.offset = (g.res.page - 1) * g.res.pageSize
              /\ g.params.limit = g.res.pageSize
              /\ paging.settings.maxPageSize > 0 => g.res.pageSize <= paging.settings.maxPageSize
              /\ g.res.totalPages = Ceil(g.res.total, g.res.pageSize)
        /\ ReadAll => \A r \in 1..paging.total : Returned(r) = 1

\* ---------------------------------------------------------------- claim C24
\* C24: in multi-tenant mode, once this.connect(mode, options, cb) has settled
\* with its connection initialized, cb has been invoked with a connection made
\* from the given options, which is not the service's own connection.
C24_ConnectInvokesCallback ==
    \A i \in 1..Len(connects) :
        LET c == connects[i] IN
        (schema.mode = "mt" /\ c.mode = "mt" /\ c.cb /\ c.state # "pending" /\ conns[c.conn].isInitialized)
        => \E k \in 1..Len(c.cbWith) :
               /\ conns[c.cbWith[k]].name = NameOrDefault(c.options)
               /\ \A j \in 1..Len(connects) : connects[j].by = "started" => connects[j].conn # c.cbWith[k]

\* ---------------------------------------------------------------- claim C28
\* C28: in standard or unset mode started() resolves only after a connect
\* attempt of its own has succeeded, and in multi-tenant mode it starts none.
C28_StartedResolvesConnected ==
    /\ startedPromise = "resolved"
       => \E i \in 1..Len(connects) : connects[i].by = "started" /\ conns[connects[i].conn].isInitialized
    /\ schema.mode = "mt" => \A i \in 1..Len(connects) : connects[i].by # "started"

\* ---------------------------------------------------------------- claim C21
\* the stages the claim names, in the order it gives them
StageOrder == <<"afterRetrieveTransformID", "encodeID", "populateDocs", "filterFields", "excludeFields">>

StageRank(e) == CHOOSE i \in 1..Len(StageOrder) : StageOrder[i] = e

IsStage(ev0) == \E i \in 1..Len(StageOrder) : StageOrder[i] = ev0.e

\* the stages that have run, in the order they ran
StagesRun == SelectSeq(trace, IsStage)

\* transformDocuments has returned to the method that called it
TransformDone ==
    /\ running.method # ""
    /\ running.outcome # "rejected"
    /\ \A i \in 1..Len(running.plan) : \A j \in 1..Len(transformChain) : running.plan[i] # transformChain[j]

\* C21: the stages of transformDocuments run in the order rename, encode,
\* populate, projection, exclusion, populate only when params.populate is
\* given; a record or array passes rename, encode and projection; and the
\* result has the shape of the input: one record for one record, and for an
\* array an array of the same length with the records in the same order.
C21_StagesInOrder ==
    /\ \A i, j \in 1..Len(StagesRun) : i < j => StageRank(StagesRun[i].e) < StageRank(StagesRun[j].e)
    /\ (\E i \in 1..Len(StagesRun) : StagesRun[i].e = "populateDocs") => running.params.populate
    /\ TransformDone =>
          /\ running.docs.array = running.input.array
          /\ running.docs.object = running.input.object
          /\ running.docs.keys = running.input.keys
          /\ running.docs.count = running.input.count
          /\ (running.input.array \/ running.input.object) =>
                \A e \in {"afterRetrieveTransformID", "encodeID", "filterFields"} :
                    \E i \in 1..Len(StagesRun) : StagesRun[i].e = e

C21_Witness ==
    /\ running.method = "transformDocuments"
    /\ running.outcome = "resolved"
    /\ running.input = Docs(<<2, 1>>)
    /\ Len(StagesRun) = 5

\* ---------------------------------------------------------------- claim C23
\* the lookup of an identity-based method is the step that runs next
AtLookup == At("getById") \/ At("updateById") \/ At("removeById")

NoMatch == \A i \in 1..Len(running.ids) : running.ids[i] \notin store

\* the trace holds a cache clear or an entity-changed notification
Notified ==
    \E i \in 1..Len(trace) :
        trace[i].e \in {"clearCache", "entityCreated", "entityUpdated", "entityRemoved"}

\* the method failed with EntityNotFoundError: 404, "Entity not found", data.id
FailedNotFound(id) ==
    /\ running'.outcome = "rejected"
    /\ running'.error = [name |-> "EntityNotFoundError", id |-> id, code |-> 404,
                         message |-> "Entity not found"]

\* C23 as stated: whenever no stored record matches the requested identity
\* value(s), _get, _update and _remove fail with EntityNotFoundError carrying
\* the requested value, and no cache clear or notification is made.
C23_NotFoundAlwaysFails ==
    /\ [][(AtLookup /\ NoMatch /\ running' # running) => FailedNotFound(running.ids)]_vars
    /\ [](running.error.name = "EntityNotFoundError" => ~Notified)

\* C23 amended: with a single identity value that matches no stored record,
\* _get, _update and _remove fail with EntityNotFoundError (404, "Entity not
\* found", data.id the requested value) and make no cache clear and no
\* notification; _get with an array of identity values does not fail: it goes
\* on with the stored records among them, each once, or with none of them.
C23_NotFoundFails ==
    /\ [][(AtLookup /\ NoMatch /\ ~running.array /\ running' # running)
           => FailedNotFound(running.ids)]_vars
    /\ [][(At("getById") /\ running.array /\ running' # running)
           => /\ running'.outcome # "rejected"
              /\ running'.docs.array
              /\ \A id \in Ids :
                    Cardinality({k \in 1..Len(running'.docs.keys) : running'.docs.keys[k] = id})
                    = IF id \in store /\ (\E i \in 1..Len(running.ids) : running.ids[i] = id)
                      THEN 1 ELSE 0]_vars
    /\ [](running.error.name = "EntityNotFoundError" => ~Notified /\ running.plan = <<>>)

C23_Witness ==
    /\ running.method = "_update"
    /\ running.outcome = "rejected"
    /\ running.error.name = "EntityNotFoundError"
    /\ running.error.id = <<2>>
    /\ schema.hooks
    /\ Len(trace) = 1

\* ---------------------------------------------------------------- claim C30
\* the place of an event in the order the claim gives
CreateRank(e) ==
    CASE e = "beforeEntityCreate" -> 1
      [] e = "entityValidator" -> 2
      [] e = "insert" -> 3
      [] e = "clearCache" -> 5
      [] e = "entityCreated" -> 6
      [] OTHER -> 4

CreatePath == running.method \in {"_create", "_insert"} /\ running.form # "none"

\* C30: on every create path the events come in the order beforeEntityCreate
\* hook, validation, insert, transformation, cache clear, entityCreated hook;
\* the beforeEntityCreate hook is called once per entity; and after a failed
\* validation there is no insert, no cache clear and no entityCreated hook.
C30_CreateOrder ==
    CreatePath =>
        /\ \A i, j \in 1..Len(trace) : i < j => CreateRank(trace[i].e) <= CreateRank(trace[j].e)
        /\ \A k \in 1..Len(running.entities) :
              Cardinality({i \in 1..Len(trace) :
                             trace[i].e = "beforeEntityCreate" /\ trace[i].key = k}) <= 1
        /\ running.error = ValidationError =>
              \A i \in 1..Len(trace) : trace[i].e \notin {"insert", "clearCache", "entityCreated"}

====
